---- MODULE Spec2Model ----
(***************************************************************************)
(* The grid state machine of neovim-ink: the ScreenBuffer of               *)
(* src/src/screen/screen-buffer.ts and its operations, the redraw handler  *)
(* of src/src/neovim/event-handler.ts that applies the events of a         *)
(* notification to it, and the component NeovimScreen that reads it.       *)
(*                                                                         *)
(* Rows and columns are numbered from 0 as in the source; a TLA+ sequence  *)
(* is indexed from 1, so the cell (r, c) of the grid g is g[r + 1][c + 1]. *)
(***************************************************************************)
EXTENDS Integers, Sequences, FiniteSets

(* ------------------------------ bounds --------------------------------- *)

MaxHeight == 3      \* the tallest grid
MaxGen == 2         \* flush is applied while generation < MaxGen
MaxRepeat == 2      \* the repeat count of the repeating run
MaxDelta == 2       \* the largest scroll distance, either way
MaxLog == 2         \* the most UNHANDLED lines the log is followed for

VARIABLES
    width,        \* ScreenBuffer.width
    height,       \* ScreenBuffer.height
    cells,        \* ScreenBuffer.cells: a sequence of rows, each a sequence of cells
    dirtyRows,    \* ScreenBuffer.dirtyRows
    generation,   \* ScreenBuffer.generation
    hlAttrs,      \* ScreenBuffer.hlAttrs: a function from the defined ids to their entries
    defaultColors,\* ScreenBuffer.defaultColors
    cursor,       \* ScreenBuffer.cursor
    modeInfoList, \* ScreenBuffer.modeInfoList
    unhandled,    \* the log: the names logged as UNHANDLED, oldest first
    frames,       \* history: what each call of onFlush found, oldest first
    flushed,      \* history, kept by the redraw handler: the grid as the last
                  \* flush left it, in a set that is empty before the first flush
    shown,        \* what NeovimScreen read when it last rendered (generation -1
                  \* before the first render)
    lastOp,       \* history: the most recent operation and its arguments
    flushes,      \* history: the number of flush operations applied so far
    requests,     \* the requests the client has sent that Neovim has not handled yet
    channel,      \* the messages Neovim has written that the client has not
                  \* dispatched yet, oldest first
    initPc,       \* where init of useNeovim stands: "attach" while it awaits the
                  \* response to nvim_ui_attach, "resume" once that response is
                  \* dispatched, "done" after setupRedrawHandler
    listening     \* whether the "notification" listener of the handler is registered

\* the fields of the ScreenBuffer that hold no cells
attrVars == <<hlAttrs, defaultColors, cursor, modeInfoList>>

\* the log and the renderer
viewVars == <<unhandled, flushed, shown>>

\* the connection to Neovim
clientVars == <<requests, channel, initPc, listening>>

vars == <<width, height, cells, dirtyRows, generation, attrVars, viewVars, frames,
          lastOp, flushes, clientVars>>

(* ------------------------------- cells --------------------------------- *)

\* makeCell with no glyph at all
makeCellEmpty == [text |-> "", hlId |-> 0]

makeCell == [text |-> " ", hlId |-> 0]

makeRow(w) == [i \in 1..w |-> makeCell]

Min(a, b) == IF a < b THEN a ELSE b

Sign(n) == IF n > 0 THEN 1 ELSE IF n < 0 THEN 0 - 1 ELSE 0

\* `this.cells[r]` is an object (not undefined) exactly for the indices of the array
HasRow(g, r) == r >= 0 /\ r < Len(g)

\* An array slot that was never assigned (a hole, read as undefined).
Hole == [text |-> "undefined", hlId |-> 0 - 1]

\* arr[i] = x on a JavaScript array (i >= 0): an index at or past the length
\* extends the array, leaving holes in between
SetAt(arr, i, x) ==
    IF i < Len(arr) THEN [arr EXCEPT ![i + 1] = x]
    ELSE [k \in 1..(i + 1) |-> IF k <= Len(arr) THEN arr[k] ELSE IF k = i + 1 THEN x ELSE Hole]

\* cells[r][c] = x, for a row r the array has
SetCell(g, r, c, x) == [g EXCEPT ![r + 1] = SetAt(g[r + 1], c, x)]

\* n copies of x appended to the sequence s, one push at a time
RECURSIVE PushN(_, _, _)
PushN(s, x, n) == IF n <= 0 THEN s ELSE PushN(Append(s, x), x, n - 1)

(* ----------------------------- constructor ----------------------------- *)

NewCells(w, h) == [r \in 1..h |-> makeRow(w)]

(* ------------------------------ gridResize ----------------------------- *)

\* "Grow or shrink rows"
ResizeRows(g, oldHeight, w, h) ==
    IF h > oldHeight THEN PushN(g, makeRow(w), h - oldHeight)
    ELSE IF h < oldHeight THEN SubSeq(g, 1, h)
    ELSE g

\* ResizeCols without the truncation of a row made narrower
ResizeColsGrowOnly(row, oldWidth, w) ==
    IF w > oldWidth THEN PushN(row, makeCell, w - oldWidth) ELSE row

\* ResizeCols making a fresh row whenever the width changes
ResizeColsFresh(row, oldWidth, w) ==
    IF w # oldWidth THEN makeRow(w) ELSE row

\* "Adjust column widths for existing rows": one retained row
ResizeCols(row, oldWidth, w) ==
    IF w > oldWidth THEN PushN(row, makeCell, w - oldWidth)
    ELSE IF w < oldWidth THEN SubSeq(row, 1, w)
    ELSE row

GridResizeCells(g, oldWidth, oldHeight, w, h) ==
    LET g1 == ResizeRows(g, oldHeight, w, h)
    IN  [r \in 1..Len(g1) |->
            IF r <= Min(h, oldHeight) THEN ResizeCols(g1[r], oldWidth, w) ELSE g1[r]]

\* AllRows without the last row
AllRowsButLast(h) == 0..(h - 2)

AllRows(h) == 0..(h - 1)

GridResize(w, h) ==
    /\ width' = w
    /\ height' = h
    /\ cells' = GridResizeCells(cells, width, height, w, h)
    /\ dirtyRows' = dirtyRows \cup AllRows(h)
    /\ lastOp' = [op |-> "gridResize"]
    /\ UNCHANGED <<generation, flushes, attrVars, viewVars, clientVars, frames>>

(* ------------------------------- gridLine ------------------------------ *)

\* A run is the array [text, hlId?, repeat?] of a grid_line event.
\* The cells arrays a grid_line event is tried with: a run that omits hlId and
\* repeat, runs that give an hlId, a run that inherits one, a repeating run,
\* and a run after a repeating run.
RunLists ==
    { << <<"a">> >>,
      << <<"a", 1>> >>,
      << <<"a", 1>>, <<"a">> >>,
      << <<"a">>, <<"a", 1>> >>,
      << <<"a", 1, MaxRepeat>> >>,
      << <<"a", 0, MaxRepeat>>, <<"a", 1>> >> }

\* The cells arrays tried where only the place of the written cells matters
FrameRuns == { << <<"a", 1>> >>, << <<"a", 1, MaxRepeat>> >> }

\* WriteCell without the test of the column against the width
WriteCellAnyCol(g, w, row, col, cell) ==
    IF HasRow(g, row) THEN SetCell(g, row, col, cell) ELSE g

\* if (col < this.width && this.cells[row]) this.cells[row][col] = { text, hlId }
WriteCell(g, w, row, col, cell) ==
    IF col < w /\ HasRow(g, row) THEN SetCell(g, row, col, cell) ELSE g

\* the inner loop: `repeat` writes of one cell, each advancing the column
RECURSIVE WriteRepeat(_, _, _, _, _, _)
WriteRepeat(g, w, row, col, cell, n) ==
    IF n <= 0 THEN g
    ELSE WriteRepeat(WriteCell(g, w, row, col, cell), w, row, col + 1, cell, n - 1)

\* RunHlId falling back to 0 instead of the preceding run's highlight
RunHlIdZero(arr, lastHlId) == IF Len(arr) > 1 THEN arr[2] ELSE 0

RunHlId(arr, lastHlId) == IF Len(arr) > 1 THEN arr[2] ELSE lastHlId

RunRepeat(arr) == IF Len(arr) > 2 THEN arr[3] ELSE 1

\* the outer loop over the runs, carrying col and lastHlId
RECURSIVE WriteRuns(_, _, _, _, _, _)
WriteRuns(g, w, row, col, lastHlId, runs) ==
    IF runs = <<>> THEN g
    ELSE LET arr == Head(runs)
             text == arr[1]
             hlId == RunHlId(arr, lastHlId)
             repeat == RunRepeat(arr)
         IN  WriteRuns(
                WriteRepeat(g, w, row, col, [text |-> text, hlId |-> hlId], repeat),
                w, row, col + repeat, hlId, Tail(runs))

GridLineCells(g, w, row, colStart, runs) == WriteRuns(g, w, row, colStart, 0, runs)

GridLine(row, colStart, runs) ==
    /\ cells' = GridLineCells(cells, width, row, colStart, runs)
    /\ dirtyRows' = dirtyRows \cup {row}
    /\ lastOp' = [op |-> "gridLine"]
    /\ UNCHANGED <<width, height, generation, flushes, attrVars, viewVars, clientVars, frames>>

(* ------------------------------ gridScroll ----------------------------- *)

\* The state a scroll works on: the grid, the dirty set, and whether the call
\* has thrown (a TypeError on a row index outside the array).
ScrollStart(g, d) == [cells |-> g, dirty |-> d, threw |-> FALSE]

\* for (c = left; c < right; c++) cells[r][c] = { ...cells[src][c] }
RECURSIVE CopyCols(_, _, _, _, _)
CopyCols(g, r, src, c, right) ==
    IF c >= right THEN g
    ELSE CopyCols(SetCell(g, r, c, g[src + 1][c + 1]), r, src, c + 1, right)

\* for (c = left; c < right; c++) cells[r][c] = makeCell()
RECURSIVE ClearCols(_, _, _, _)
ClearCols(g, r, c, right) ==
    IF c >= right THEN g
    ELSE ClearCols(SetCell(g, r, c, makeCell), r, c + 1, right)

\* CopyRow reading row r itself instead of row r + rows
CopyRowInPlace(st, r, left, right, rows) ==
    IF left < right /\ ~(HasRow(st.cells, r) /\ HasRow(st.cells, r + rows))
    THEN [st EXCEPT !.threw = TRUE]
    ELSE [st EXCEPT !.dirty = st.dirty \cup {r}]

\* CopyRow without the marking of the row as dirty
CopyRowNotDirty(st, r, left, right, rows) ==
    IF left < right /\ ~(HasRow(st.cells, r) /\ HasRow(st.cells, r + rows))
    THEN [st EXCEPT !.threw = TRUE]
    ELSE [st EXCEPT !.cells = CopyCols(st.cells, r, r + rows, left, right)]

\* one iteration of a copy loop: row r takes the columns of row r + rows
CopyRow(st, r, left, right, rows) ==
    IF left < right /\ ~(HasRow(st.cells, r) /\ HasRow(st.cells, r + rows))
    THEN [st EXCEPT !.threw = TRUE]
    ELSE [st EXCEPT !.cells = CopyCols(st.cells, r, r + rows, left, right),
                    !.dirty = st.dirty \cup {r}]

\* ClearRow clearing every column of the row instead of [left, right)
ClearRowWhole(st, r, left, right) ==
    IF left < right /\ ~HasRow(st.cells, r)
    THEN [st EXCEPT !.threw = TRUE]
    ELSE [st EXCEPT !.cells = ClearCols(st.cells, r, 0, Len(st.cells[r + 1])),
                    !.dirty = st.dirty \cup {r}]

\* one iteration of a clear loop
ClearRow(st, r, left, right) ==
    IF left < right /\ ~HasRow(st.cells, r)
    THEN [st EXCEPT !.threw = TRUE]
    ELSE [st EXCEPT !.cells = ClearCols(st.cells, r, left, right),
                    !.dirty = st.dirty \cup {r}]

\* for (r = from; r < to; r++) copy
RECURSIVE CopyUp(_, _, _, _, _, _)
CopyUp(st, r, to, left, right, rows) ==
    IF st.threw \/ r >= to THEN st
    ELSE CopyUp(CopyRow(st, r, left, right, rows), r + 1, to, left, right, rows)

\* for (r = from; r >= to; r--) copy
RECURSIVE CopyDown(_, _, _, _, _, _)
CopyDown(st, r, to, left, right, rows) ==
    IF st.threw \/ r < to THEN st
    ELSE CopyDown(CopyRow(st, r, left, right, rows), r - 1, to, left, right, rows)

\* for (r = from; r < to; r++) clear
RECURSIVE ClearRows(_, _, _, _, _)
ClearRows(st, r, to, left, right) ==
    IF st.threw \/ r >= to THEN st
    ELSE ClearRows(ClearRow(st, r, left, right), r + 1, to, left, right)

\* GridScrollResult copying downwards in ascending row order, so that a row
\* is overwritten before it is read
GridScrollResultAscending(g, d, top, bot, left, right, rows) ==
    IF rows > 0
    THEN ClearRows(CopyUp(ScrollStart(g, d), top, bot - rows, left, right, rows),
                   bot - rows, bot, left, right)
    ELSE IF rows < 0
    THEN ClearRows(CopyUp(ScrollStart(g, d), top - rows, bot, left, right, rows),
                   top, top - rows, left, right)
    ELSE ScrollStart(g, d)

GridScrollResult(g, d, top, bot, left, right, rows) ==
    IF rows > 0
    THEN ClearRows(CopyUp(ScrollStart(g, d), top, bot - rows, left, right, rows),
                   bot - rows, bot, left, right)
    ELSE IF rows < 0
    THEN ClearRows(CopyDown(ScrollStart(g, d), bot - 1, top - rows, left, right, rows),
                   top, top - rows, left, right)
    ELSE ScrollStart(g, d)

GridScroll(top, bot, left, right, rows) ==
    \E res \in { GridScrollResult(cells, dirtyRows, top, bot, left, right, rows) } :
        /\ cells' = res.cells
        /\ dirtyRows' = res.dirty
        /\ lastOp' = [op |-> "gridScroll", dir |-> Sign(rows), threw |-> res.threw]
        /\ UNCHANGED <<width, height, generation, flushes, attrVars, viewVars, clientVars, frames>>

(* ------------------------------- gridClear ----------------------------- *)

\* for (r = 0; r < height; r++) cells[r] = makeRow(width)
GridClearCells(g, w, h) ==
    [r \in 1..(IF h > Len(g) THEN h ELSE Len(g)) |->
        IF r <= h THEN makeRow(w) ELSE g[r]]

GridClear ==
    /\ cells' = GridClearCells(cells, width, height)
    /\ dirtyRows' = dirtyRows \cup AllRows(height)
    /\ lastOp' = [op |-> "gridClear"]
    /\ UNCHANGED <<width, height, generation, flushes, attrVars, viewVars, clientVars, frames>>

(* --------------------------------- flush ------------------------------- *)

\* FlushGeneration counting a flush twice
FlushGenerationTwice(g) == g + 2

FlushGeneration(g) == g + 1

\* FlushDirty keeping the dirty rows
FlushDirtyKeep(d) == d

FlushDirty(d) == {}

Flush ==
    /\ generation < MaxGen
    /\ generation' = FlushGeneration(generation)
    /\ dirtyRows' = FlushDirty(dirtyRows)
    /\ lastOp' = [op |-> "flush", before |-> generation, again |-> lastOp.op = "flush"]
    /\ flushes' = flushes + 1
    /\ frames' = Append(frames, [generation |-> generation', dirty |-> dirtyRows'])
    /\ UNCHANGED <<width, height, cells, attrVars, viewVars, clientVars>>

(* ---------------------------- gridCursorGoto --------------------------- *)

\* GridCursorGotoResult keeping the cursor at or after row 0 and column 0
GridCursorGotoClamped(c, row, col) ==
    [c EXCEPT !.row = IF row < 0 THEN 0 ELSE row, !.col = IF col < 0 THEN 0 ELSE col]

GridCursorGotoResult(c, row, col) == [c EXCEPT !.row = row, !.col = col]

GridCursorGoto(row, col) ==
    /\ cursor' = GridCursorGotoResult(cursor, row, col)
    /\ lastOp' = [op |-> "gridCursorGoto"]
    /\ UNCHANGED <<width, height, cells, dirtyRows, generation, flushes, frames,
                   hlAttrs, defaultColors, modeInfoList, viewVars, clientVars>>

(* ------------------------------ hlAttrDefine --------------------------- *)

\* the keys of rgb_attr copied when they are not undefined
NumberKeys == {"foreground", "background", "special", "blend"}

\* the keys of rgb_attr stored as true when they are truthy
FlagKeys ==
    {"reverse", "italic", "bold", "strikethrough", "underline", "undercurl",
     "underdouble", "underdotted", "underdashed"}

\* rgbAttr.k !== undefined: an attribute map holds the keys it was sent with
Defined(rgbAttr, k) == k \in DOMAIN rgbAttr

\* if (rgbAttr.k), for a key sent as a boolean
Truthy(rgbAttr, k) == Defined(rgbAttr, k) /\ rgbAttr[k] = TRUE

\* the object attr built from rgbAttr, field by field
HlAttrOf(rgbAttr) ==
    [k \in {n \in NumberKeys : Defined(rgbAttr, n)} \cup {f \in FlagKeys : Truthy(rgbAttr, f)} |->
        IF k \in NumberKeys THEN rgbAttr[k] ELSE TRUE]

\* Map.set(id, attr)
MapSet(m, id, attr) == [i \in DOMAIN m \cup {id} |-> IF i = id THEN attr ELSE m[i]]

\* HlAttrDefineResult keeping the fields of the entry the id had
HlAttrDefineMerge(m, id, rgbAttr) ==
    LET attr == HlAttrOf(rgbAttr)
        prev == IF id \in DOMAIN m THEN m[id] ELSE [k \in {} |-> TRUE]
    IN  MapSet(m, id, [k \in DOMAIN prev \cup DOMAIN attr |->
                          IF k \in DOMAIN attr THEN attr[k] ELSE prev[k]])

HlAttrDefineResult(m, id, rgbAttr) == MapSet(m, id, HlAttrOf(rgbAttr))

HlAttrDefine(id, rgbAttr) ==
    /\ hlAttrs' = HlAttrDefineResult(hlAttrs, id, rgbAttr)
    /\ lastOp' = [op |-> "hlAttrDefine", id |-> id, rgbAttr |-> rgbAttr,
                  redefined |-> id \in DOMAIN hlAttrs
                                /\ ~(DOMAIN hlAttrs[id] \subseteq DOMAIN rgbAttr)]
    /\ UNCHANGED <<width, height, cells, dirtyRows, generation, flushes, frames,
                   defaultColors, cursor, modeInfoList, viewVars, clientVars>>

(* ---------------------------- defaultColorsSet ------------------------- *)

\* SetChannel without the test for -1
SetChannelAlways(old, v) == v

\* if (v !== -1) channel = v
SetChannel(old, v) == IF v # 0 - 1 THEN v ELSE old

DefaultColorsSetResult(dc, fg, bg, sp) ==
    [fg |-> SetChannel(dc.fg, fg), bg |-> SetChannel(dc.bg, bg), sp |-> SetChannel(dc.sp, sp)]

\* MarkAllDirty adding no row
MarkAllDirtyNone(d, h) == d

\* for (r = 0; r < this.height; r++) this.dirtyRows.add(r)
MarkAllDirty(d, h) == d \cup AllRows(h)

DefaultColorsSet(fg, bg, sp) ==
    /\ defaultColors' = DefaultColorsSetResult(defaultColors, fg, bg, sp)
    /\ dirtyRows' = MarkAllDirty(dirtyRows, height)
    /\ lastOp' = [op |-> "defaultColorsSet",
                  kept |-> {ch \in {"fg", "bg", "sp"} :
                              [fg |-> fg, bg |-> bg, sp |-> sp][ch] = 0 - 1},
                  clean |-> dirtyRows = {}]
    /\ UNCHANGED <<width, height, cells, generation, flushes, frames,
                   hlAttrs, cursor, modeInfoList, viewVars, clientVars>>

(* ------------------------- modeInfoSet, modeChange --------------------- *)

ModeKeys == {"cursor_shape", "cell_percentage", "attr_id", "name", "short_name"}

\* the five fields kept of a mode; a field the mode lacks is undefined
ModeInfoOf(m) == [k \in ModeKeys \cap DOMAIN m |-> m[k]]

ModeInfoSetResult(list) == [i \in 1..Len(list) |-> ModeInfoOf(list[i])]

ModeInfoSet(list) ==
    /\ modeInfoList' = ModeInfoSetResult(list)
    /\ lastOp' = [op |-> "modeInfoSet"]
    /\ UNCHANGED <<width, height, cells, dirtyRows, generation, flushes, frames,
                   hlAttrs, defaultColors, cursor, viewVars, clientVars>>

\* ModeChangeResult keeping the index at or above 0
ModeChangeNotBelow(c, modeIdx) == [c EXCEPT !.modeIdx = IF modeIdx < 0 THEN 0 ELSE modeIdx]

ModeChangeResult(c, modeIdx) == [c EXCEPT !.modeIdx = modeIdx]

ModeChange(modeIdx) ==
    /\ cursor' = ModeChangeResult(cursor, modeIdx)
    /\ lastOp' = [op |-> "modeChange"]
    /\ UNCHANGED <<width, height, cells, dirtyRows, generation, flushes, frames,
                   hlAttrs, defaultColors, modeInfoList, viewVars, clientVars>>

(* --------------------------- busyStart, busyStop ----------------------- *)

BusyStartResult(c) == [c EXCEPT !.visible = FALSE]

\* BusyStopResult leaving the cursor as it is
BusyStopKeep(c) == c

BusyStopResult(c) == [c EXCEPT !.visible = TRUE]

BusyStart ==
    /\ cursor' = BusyStartResult(cursor)
    /\ lastOp' = [op |-> "busyStart"]
    /\ UNCHANGED <<width, height, cells, dirtyRows, generation, flushes, frames,
                   hlAttrs, defaultColors, modeInfoList, viewVars, clientVars>>

BusyStop ==
    /\ cursor' = BusyStopResult(cursor)
    /\ lastOp' = [op |-> "busyStop"]
    /\ UNCHANGED <<width, height, cells, dirtyRows, generation, flushes, frames,
                   hlAttrs, defaultColors, modeInfoList, viewVars, clientVars>>

(* --------------------------- the redraw handler ------------------------ *)

\* HANDLED_EVENTS without the names known but intentionally ignored
HandledDispatchedOnly ==
    {"grid_resize", "grid_line", "grid_cursor_goto", "grid_scroll", "grid_clear",
     "hl_attr_define", "default_colors_set", "mode_info_set", "mode_change",
     "busy_start", "busy_stop", "flush"}

\* The names the handler knows: those it dispatches, then those known but
\* intentionally ignored.
HANDLED_EVENTS ==
    {"grid_resize", "grid_line", "grid_cursor_goto", "grid_scroll", "grid_clear",
     "hl_attr_define", "default_colors_set", "mode_info_set", "mode_change",
     "busy_start", "busy_stop", "flush",
     "option_set", "mouse_on", "mouse_off", "set_title", "set_icon", "chdir",
     "hl_group_set", "update_menu", "win_viewport"}

\* the grid a renderer reads: cells, cursor, attribute table, colors, modes
GridOf(s) ==
    [cells |-> s.cells, cursor |-> s.cursor, hlAttrs |-> s.hlAttrs,
     defaultColors |-> s.defaultColors, modeInfoList |-> s.modeInfoList]

\* The state the handler works on: the ScreenBuffer, the log, the history,
\* and whether a call has thrown.
Screen ==
    [width |-> width, height |-> height, cells |-> cells, dirtyRows |-> dirtyRows,
     generation |-> generation, hlAttrs |-> hlAttrs, defaultColors |-> defaultColors,
     cursor |-> cursor, modeInfoList |-> modeInfoList, unhandled |-> unhandled,
     frames |-> frames, flushed |-> flushed, flushes |-> flushes, threw |-> FALSE]

\* screen.flush()
ScreenFlush(s) ==
    LET f == [s EXCEPT !.generation = FlushGeneration(@), !.dirtyRows = FlushDirty(@),
                       !.flushes = @ + 1]
    IN  [f EXCEPT !.flushed = {GridOf(f)}]

\* onFlush(): the callback finds the ScreenBuffer as it is when called
OnFlush(s) ==
    [s EXCEPT !.frames = Append(@, [generation |-> s.generation, dirty |-> s.dirtyRows])]

\* DispatchFlush raising the signal before the flush of the ScreenBuffer
DispatchFlushSignalFirst(s) == ScreenFlush(OnFlush(s))

\* case "flush"
DispatchFlush(s) == OnFlush(ScreenFlush(s))

\* case "grid_scroll"
DispatchScroll(s, params) ==
    LET res == GridScrollResult(s.cells, s.dirtyRows,
                                params[2], params[3], params[4], params[5], params[6])
    IN  [s EXCEPT !.cells = res.cells, !.dirtyRows = res.dirty, !.threw = res.threw]

\* The switch: params[0], params[1], ... of the source are params[1],
\* params[2], ... here.
Dispatch(s, eventName, params) ==
    CASE eventName = "grid_resize" ->
            [s EXCEPT !.width = params[2], !.height = params[3],
                      !.cells = GridResizeCells(s.cells, s.width, s.height,
                                                params[2], params[3]),
                      !.dirtyRows = @ \cup AllRows(params[3])]
      [] eventName = "grid_line" ->
            [s EXCEPT !.cells = GridLineCells(s.cells, s.width,
                                              params[2], params[3], params[4]),
                      !.dirtyRows = @ \cup {params[2]}]
      [] eventName = "grid_cursor_goto" ->
            [s EXCEPT !.cursor = GridCursorGotoResult(@, params[2], params[3])]
      [] eventName = "grid_scroll" -> DispatchScroll(s, params)
      [] eventName = "grid_clear" ->
            [s EXCEPT !.cells = GridClearCells(s.cells, s.width, s.height),
                      !.dirtyRows = @ \cup AllRows(s.height)]
      [] eventName = "hl_attr_define" ->
            [s EXCEPT !.hlAttrs = HlAttrDefineResult(@, params[1], params[2])]
      [] eventName = "default_colors_set" ->
            [s EXCEPT !.defaultColors =
                          DefaultColorsSetResult(@, params[1], params[2], params[3]),
                      !.dirtyRows = MarkAllDirty(@, s.height)]
      [] eventName = "mode_info_set" ->
            [s EXCEPT !.modeInfoList = ModeInfoSetResult(params[2])]
      [] eventName = "mode_change" ->
            [s EXCEPT !.cursor = ModeChangeResult(@, params[2])]
      [] eventName = "busy_start" -> [s EXCEPT !.cursor = BusyStartResult(@)]
      [] eventName = "busy_stop" -> [s EXCEPT !.cursor = BusyStopResult(@)]
      [] eventName = "flush" -> DispatchFlush(s)
      [] OTHER -> s

\* TuplesOf keeping the first parameter tuple only
TuplesOfFirst(arr) == IF Len(arr) > 1 THEN <<arr[2]>> ELSE <<>>

\* arr[1], ..., arr[arr.length - 1]: the parameter tuples of an event
TuplesOf(arr) == Tail(arr)

\* for (i = 1; i < arr.length; i++) switch (eventName) ...; a call that throws
\* ends the handler
RECURSIVE HandleTuples(_, _, _)
HandleTuples(s, eventName, tuples) ==
    IF s.threw \/ tuples = <<>> THEN s
    ELSE HandleTuples(Dispatch(s, eventName, Head(tuples)), eventName, Tail(tuples))

\* IsHandled answering yes for every name
IsHandledAlways(eventName) == TRUE

\* HANDLED_EVENTS.has(eventName)
IsHandled(eventName) == eventName \in HANDLED_EVENTS

\* if (!HANDLED_EVENTS.has(eventName)) log("event", `UNHANDLED redraw event: ...`)
LogUnhandled(s, eventName) ==
    IF IsHandled(eventName) THEN s ELSE [s EXCEPT !.unhandled = Append(@, eventName)]

\* the body of the loop over the events: arr = [eventName, tuple, tuple, ...]
HandleEvent(s, arr) == HandleTuples(LogUnhandled(s, arr[1]), arr[1], TuplesOf(arr))

\* for (const event of args)
RECURSIVE HandleEvents(_, _)
HandleEvents(s, args) ==
    IF s.threw \/ args = <<>> THEN s
    ELSE HandleEvents(HandleEvent(s, Head(args)), Tail(args))

\* the number of tuples of the events named `name` in a notification
RECURSIVE CountTuples(_, _)
CountTuples(args, names) ==
    IF args = <<>> THEN 0
    ELSE (IF Head(args)[1] \in names THEN Len(Head(args)) - 1 ELSE 0)
         + CountTuples(Tail(args), names)

\* the number of events of a notification whose name the handler does not know
RECURSIVE CountUnknown(_)
CountUnknown(args) ==
    IF args = <<>> THEN 0
    ELSE (IF Head(args)[1] \in HANDLED_EVENTS THEN 0 ELSE 1) + CountUnknown(Tail(args))

\* The listener registered by setupRedrawHandler, run on the arguments of a
\* "redraw" notification: it runs to its end before anything else.
OnNotification(args) ==
    /\ generation + CountTuples(args, {"flush"}) <= MaxGen
    /\ Len(unhandled) + CountUnknown(args) <= MaxLog
    /\ \E res \in { HandleEvents(Screen, args) } :
        /\ width' = res.width
        /\ height' = res.height
        /\ cells' = res.cells
        /\ dirtyRows' = res.dirtyRows
        /\ generation' = res.generation
        /\ hlAttrs' = res.hlAttrs
        /\ defaultColors' = res.defaultColors
        /\ cursor' = res.cursor
        /\ modeInfoList' = res.modeInfoList
        /\ unhandled' = res.unhandled
        /\ frames' = res.frames
        /\ flushed' = res.flushed
        /\ flushes' = res.flushes
        /\ lastOp' = [op |-> "redraw",
                      names |-> [i \in 1..Len(args) |-> args[i][1]],
                      tuples |-> [i \in 1..Len(args) |-> Len(args[i]) - 1],
                      threw |-> res.threw]
        /\ UNCHANGED shown

\* A "redraw" notification delivered to the listener.
Redraw(args) == OnNotification(args) /\ UNCHANGED clientVars

(* ------------------------------ the renderer --------------------------- *)

\* What the component NeovimScreen reads of the ScreenBuffer each time it
\* renders: the generation, the rows, the cursor column of each row, the shape
\* and the attributes of the cursor.
NeovimScreenReads(s) ==
    LET known == s.cursor.modeIdx + 1 \in DOMAIN s.modeInfoList
        modeInfo == s.modeInfoList[s.cursor.modeIdx + 1]
    IN  [generation |-> s.generation,
         cursorCol |-> [r \in 1..Len(s.cells) |->
                          IF s.cursor.visible /\ s.cursor.row = r - 1
                          THEN s.cursor.col ELSE 0 - 1],
         cursorShape |-> IF known /\ "cursor_shape" \in DOMAIN modeInfo
                         THEN modeInfo.cursor_shape ELSE "block",
         cursorAttr |-> IF known /\ "attr_id" \in DOMAIN modeInfo
                           /\ modeInfo.attr_id > 0
                           /\ modeInfo.attr_id \in DOMAIN s.hlAttrs
                        THEN {s.hlAttrs[modeInfo.attr_id]} ELSE {}]

\* A render of NeovimScreen: after a frame-complete signal changed frameCount,
\* or when a parent component renders again (a timer, a resize of the terminal).
Render ==
    /\ shown' = NeovimScreenReads(Screen)
    /\ lastOp' = [op |-> "render"]
    /\ UNCHANGED <<width, height, cells, dirtyRows, generation, flushes, frames,
                   attrVars, unhandled, flushed, clientVars>>

(* ------------------------------ the connection ------------------------- *)

\* resize sending nothing
ResizeRequestDropped(reqs, w, h) == reqs

\* client.request("nvim_ui_try_resize", [w, h])
ResizeRequest(reqs, w, h) == Append(reqs, <<"nvim_ui_try_resize", w, h>>)

\* useNeovim.resize(w, h): the request is sent, its promise is not awaited
UseNeovimResize(w, h) ==
    /\ requests' = ResizeRequest(requests, w, h)
    /\ lastOp' = [op |-> "resize", w |-> w, h |-> h]
    /\ UNCHANGED <<width, height, cells, dirtyRows, generation, flushes, frames,
                   attrVars, viewVars, channel, initPc, listening>>

\* setupRedrawHandler, where init goes on after its await of nvim_ui_attach:
\* client.on("notification", ...)
SetupRedrawHandler ==
    /\ initPc = "resume"
    /\ initPc' = "done"
    /\ listening' = TRUE
    /\ lastOp' = [op |-> "setupRedrawHandler"]
    /\ UNCHANGED <<width, height, cells, dirtyRows, generation, flushes, frames,
                   attrVars, viewVars, requests, channel>>

\* The client dispatches the oldest message Neovim has written. A response
\* settles the promise of its request: init, if it awaits the response, can go
\* on. A notification is emitted to the listener if one is registered, and is
\* dropped if none is.
Deliver ==
    /\ channel # <<>>
    /\ channel' = Tail(channel)
    /\ UNCHANGED <<requests, listening>>
    /\ IF Head(channel).type = "response"
       THEN /\ initPc' = IF initPc = "attach" /\ Head(channel).method = "nvim_ui_attach"
                         THEN "resume" ELSE initPc
            /\ lastOp' = [op |-> "response", method |-> Head(channel).method]
            /\ UNCHANGED <<width, height, cells, dirtyRows, generation, flushes, frames,
                           attrVars, viewVars>>
       ELSE IF listening
       THEN /\ OnNotification(Head(channel).args)
            /\ UNCHANGED initPc
       ELSE /\ lastOp' = [op |-> "dropped", args |-> Head(channel).args]
            /\ UNCHANGED <<width, height, cells, dirtyRows, generation, flushes, frames,
                           attrVars, viewVars, initPc>>

\* a response to a request, as the client reads it
Response(method) == [type |-> "response", method |-> method]

\* a "redraw" notification, as the client reads it
Notification(args) == [type |-> "notification", args |-> args]

\* Neovim handles the oldest request: it writes the response and then, in the
\* notifications given, the redraw events the request leads to.
NvimHandles(notifications) ==
    /\ requests # <<>>
    /\ requests' = Tail(requests)
    /\ channel' = channel \o <<Response(Head(requests)[1])>>
                      \o [i \in 1..Len(notifications) |-> Notification(notifications[i])]
    /\ lastOp' = [op |-> "nvim", method |-> Head(requests)[1]]
    /\ UNCHANGED <<width, height, cells, dirtyRows, generation, flushes, frames,
                   attrVars, viewVars, initPc, listening>>

(* --------------------------- the highlight compiler -------------------- *)

\* The string a row is rendered as is modelled as the sequence of its pieces:
\* an escape sequence is [esc |-> its code] (with rgb, its color triple), a
\* glyph is [text |-> the glyph].

\* `${r};${g};${b}` of a 24-bit color
rgbToAnsi(rgb) == <<(rgb \div 65536) % 256, (rgb \div 256) % 256, rgb % 256>>

fgSequence(rgb) == [esc |-> "38;2", rgb |-> rgbToAnsi(rgb)]

bgSequence(rgb) == [esc |-> "48;2", rgb |-> rgbToAnsi(rgb)]

\* `\x1b[58;2;...m`, the color of the underline
spSequence(rgb) == [esc |-> "58;2", rgb |-> rgbToAnsi(rgb)]

RESET == [esc |-> "0"]
BOLD == [esc |-> "1"]
ITALIC == [esc |-> "3"]
UNDERLINE == [esc |-> "4"]
UNDERCURL == [esc |-> "4:3"]
UNDERDOUBLE == [esc |-> "4:2"]
UNDERDOTTED == [esc |-> "4:4"]
UNDERDASHED == [esc |-> "4:5"]
STRIKETHROUGH == [esc |-> "9"]

\* hlAttrs.get(id): the set holding the entry of id, empty for undefined
MapGet(m, id) == IF id \in DOMAIN m THEN {m[id]} ELSE {}

\* hlAttr?.k !== undefined
HasField(hlAttr, k) == \E h \in hlAttr : k \in DOMAIN h

\* hlAttr?.k ?? other
FieldOr(hlAttr, k, other) ==
    IF HasField(hlAttr, k) THEN (CHOOSE h \in hlAttr : TRUE)[k] ELSE other

\* if (hlAttr?.k), for a flag
FlagSet(hlAttr, k) == FieldOr(hlAttr, k, FALSE) = TRUE

\* fg and bg of an attribute: its own or the default ones, swapped by reverse
ResolvedColors(hlAttr, dc) ==
    LET fg == FieldOr(hlAttr, "foreground", dc.fg)
        bg == FieldOr(hlAttr, "background", dc.bg)
    IN  IF FlagSet(hlAttr, "reverse") THEN [fg |-> bg, bg |-> fg] ELSE [fg |-> fg, bg |-> bg]

\* the one underline code appended, by priority
UnderlineCodes(hlAttr) ==
    IF FlagSet(hlAttr, "undercurl") THEN <<UNDERCURL>>
    ELSE IF FlagSet(hlAttr, "underdouble") THEN <<UNDERDOUBLE>>
    ELSE IF FlagSet(hlAttr, "underdotted") THEN <<UNDERDOTTED>>
    ELSE IF FlagSet(hlAttr, "underdashed") THEN <<UNDERDASHED>>
    ELSE IF FlagSet(hlAttr, "underline") THEN <<UNDERLINE>>
    ELSE <<>>

\* the code of flag k when it is set
CodeIf(hlAttr, k, code) == IF FlagSet(hlAttr, k) THEN <<code>> ELSE <<>>

buildAttrSequence(hlAttr, dc) ==
    LET c == ResolvedColors(hlAttr, dc)
    IN  <<fgSequence(c.fg), bgSequence(c.bg)>>
        \o CodeIf(hlAttr, "bold", BOLD)
        \o CodeIf(hlAttr, "italic", ITALIC)
        \o UnderlineCodes(hlAttr)
        \o CodeIf(hlAttr, "strikethrough", STRIKETHROUGH)
        \o (IF HasField(hlAttr, "special")
               /\ \E k \in {"underline", "undercurl", "underdouble", "underdotted",
                            "underdashed"} : FlagSet(hlAttr, k)
            THEN <<spSequence(FieldOr(hlAttr, "special", 0))>> ELSE <<>>)

\* cell.text || " "
GlyphOf(cell) == [text |-> IF cell.text = "" THEN " " ELSE cell.text]

\* Restyle without the test of the previous hlId
RestyleAlways(cell, prevHlId, table, dc) ==
    <<RESET>> \o buildAttrSequence(MapGet(table, cell.hlId), dc)

\* the restyle emitted before a cell: none when its hlId is the previous one
Restyle(cell, prevHlId, table, dc) ==
    IF cell.hlId # prevHlId
    THEN <<RESET>> \o buildAttrSequence(MapGet(table, cell.hlId), dc)
    ELSE <<>>

\* the loop of renderRow from cell i on
RECURSIVE RenderFrom(_, _, _, _, _, _)
RenderFrom(row, i, prevHlId, result, table, dc) ==
    IF i > Len(row) THEN result
    ELSE RenderFrom(row, i + 1, row[i].hlId,
                    result \o Restyle(row[i], prevHlId, table, dc) \o <<GlyphOf(row[i])>>,
                    table, dc)

renderRow(row, table, dc) == RenderFrom(row, 1, 0 - 1, <<>>, table, dc) \o <<RESET>>

\* CursorCell taking the colors of cursorAttr only when it gives both
CursorCellBothOrNone(cell, table, dc, cursorShape, cursorAttr) ==
    LET c == ResolvedColors(MapGet(table, cell.hlId), dc)
        both == HasField(cursorAttr, "foreground") /\ HasField(cursorAttr, "background")
        own == IF both THEN cursorAttr ELSE {}
        cFg == FieldOr(own, "foreground", IF cursorShape = "block" THEN c.bg ELSE c.fg)
        cBg == FieldOr(own, "background", IF cursorShape = "block" THEN c.fg ELSE c.bg)
    IN  <<RESET, fgSequence(cFg), bgSequence(cBg)>>
        \o (IF cursorShape = "block" THEN <<>> ELSE <<UNDERLINE>>)
        \o <<GlyphOf(cell)>>

\* the pieces of the cursor cell: a reset, its colors by shape, an underline
\* for every shape but block, and its glyph
CursorCell(cell, table, dc, cursorShape, cursorAttr) ==
    LET c == ResolvedColors(MapGet(table, cell.hlId), dc)
        cFg == FieldOr(cursorAttr, "foreground", IF cursorShape = "block" THEN c.bg ELSE c.fg)
        cBg == FieldOr(cursorAttr, "background", IF cursorShape = "block" THEN c.fg ELSE c.bg)
    IN  <<RESET, fgSequence(cFg), bgSequence(cBg)>>
        \o (IF cursorShape = "block" THEN <<>> ELSE <<UNDERLINE>>)
        \o <<GlyphOf(cell)>>

\* RenderCursorFrom with the hlId of the cursor cell as the previous one after it
RECURSIVE RenderCursorFromKeep(_, _, _, _, _, _, _, _, _)
RenderCursorFromKeep(row, i, prevHlId, result, table, dc, cursorCol, cursorShape, cursorAttr) ==
    IF i > Len(row) THEN result
    ELSE RenderCursorFromKeep(row, i + 1, row[i].hlId,
                              result \o (IF i - 1 = cursorCol
                                         THEN CursorCell(row[i], table, dc, cursorShape, cursorAttr)
                                         ELSE Restyle(row[i], prevHlId, table, dc)
                                              \o <<GlyphOf(row[i])>>),
                              table, dc, cursorCol, cursorShape, cursorAttr)

\* the loop of renderRowWithCursor from cell i on; after the cursor cell the
\* previous hlId is -1 again
RECURSIVE RenderCursorFrom(_, _, _, _, _, _, _, _, _)
RenderCursorFrom(row, i, prevHlId, result, table, dc, cursorCol, cursorShape, cursorAttr) ==
    IF i > Len(row) THEN result
    ELSE IF i - 1 = cursorCol
    THEN RenderCursorFrom(row, i + 1, 0 - 1,
                          result \o CursorCell(row[i], table, dc, cursorShape, cursorAttr),
                          table, dc, cursorCol, cursorShape, cursorAttr)
    ELSE RenderCursorFrom(row, i + 1, row[i].hlId,
                          result \o Restyle(row[i], prevHlId, table, dc) \o <<GlyphOf(row[i])>>,
                          table, dc, cursorCol, cursorShape, cursorAttr)

renderRowWithCursor(row, table, dc, cursorCol, cursorShape, cursorAttr) ==
    RenderCursorFrom(row, 1, 0 - 1, <<>>, table, dc, cursorCol, cursorShape, cursorAttr)
    \o <<RESET>>

\* what GridRow renders for row r of what NeovimScreen read
GridRow(s, r) ==
    LET props == NeovimScreenReads(s)
    IN  IF props.cursorCol[r] >= 0
        THEN renderRowWithCursor(s.cells[r], s.hlAttrs, s.defaultColors,
                                 props.cursorCol[r], props.cursorShape, props.cursorAttr)
        ELSE renderRow(s.cells[r], s.hlAttrs, s.defaultColors)

(* ------------------------------ the key decoder ------------------------ *)

\* A key event of Ink is modelled as the set of its flags that are true.

\* ModWrap with the marker of ctrl before that of shift
modWrapCtrlFirst(name, key) ==
    LET mods == (IF "ctrl" \in key THEN "C-" ELSE "")
                \o (IF "shift" \in key THEN "S-" ELSE "")
                \o (IF "meta" \in key THEN "A-" ELSE "")
    IN  IF mods # "" THEN "<" \o mods \o name \o ">" ELSE "<" \o name \o ">"

\* modWrap leaving the modifiers out
modWrapNoMods(name, key) == "<" \o name \o ">"

modWrap(name, key) ==
    LET mods == (IF "shift" \in key THEN "S-" ELSE "")
                \o (IF "ctrl" \in key THEN "C-" ELSE "")
                \o (IF "meta" \in key THEN "A-" ELSE "")
    IN  IF mods # "" THEN "<" \o mods \o name \o ">" ELSE "<" \o name \o ">"

keyToNeovimInput(input, key) ==
    IF "return" \in key THEN "<CR>"
    ELSE IF "escape" \in key THEN "<Esc>"
    ELSE IF "backspace" \in key \/ "delete" \in key THEN "<BS>"
    ELSE IF "tab" \in key THEN (IF "shift" \in key THEN "<S-Tab>" ELSE "<Tab>")
    ELSE IF "upArrow" \in key THEN modWrap("Up", key)
    ELSE IF "downArrow" \in key THEN modWrap("Down", key)
    ELSE IF "leftArrow" \in key THEN modWrap("Left", key)
    ELSE IF "rightArrow" \in key THEN modWrap("Right", key)
    ELSE IF "pageUp" \in key THEN modWrap("PageUp", key)
    ELSE IF "pageDown" \in key THEN modWrap("PageDown", key)
    ELSE IF "home" \in key THEN modWrap("Home", key)
    ELSE IF "end" \in key THEN modWrap("End", key)
    ELSE IF "ctrl" \in key /\ Len(input) = 1 THEN "<C-" \o input \o ">"
    ELSE IF "meta" \in key /\ Len(input) = 1 THEN "<A-" \o input \o ">"
    ELSE IF input = "<" THEN "<lt>"
    ELSE IF input = "\\" THEN "<Bslash>"
    ELSE IF input = "|" THEN "<Bar>"
    ELSE IF input = " " THEN "<Space>"
    ELSE input

\* a call of keyToNeovimInput; its arguments and the string it returns are kept
KeyToNeovimInput(input, key) ==
    /\ lastOp' = [op |-> "keyToNeovimInput", input |-> input, key |-> key,
                  keys |-> keyToNeovimInput(input, key)]
    /\ UNCHANGED <<width, height, cells, dirtyRows, generation, flushes, frames,
                   attrVars, viewVars, clientVars>>

(* ----------------------------- the mouse decoder ----------------------- *)

\* A string is the sequence of its characters; the escape character 0x1b is
\* written ESC.
ESC == "ESC"

DigitChars == <<"0", "1", "2", "3", "4", "5", "6", "7", "8", "9">>

\* the value of each digit
DigitValue ==
    [c \in { DigitChars[d] : d \in 1..10 } |-> (CHOOSE d \in 1..10 : DigitChars[d] = c) - 1]

\* \d
IsDigit(c) == c \in DOMAIN DigitValue

\* the first place at or after i of s that holds no digit
RECURSIVE DigitsEnd(_, _)
DigitsEnd(s, i) ==
    IF i <= Len(s) /\ IsDigit(s[i]) THEN DigitsEnd(s, i + 1) ELSE i

\* parseInt(digits, 10) of a string of digits
RECURSIVE parseInt(_)
parseInt(digits) ==
    IF digits = <<>> THEN 0
    ELSE parseInt(SubSeq(digits, 1, Len(digits) - 1)) * 10 + DigitValue[digits[Len(digits)]]

\* no match of the pattern, and no event
Null == [null |-> TRUE]

\* SGR_MOUSE_RE.exec(s): the four groups of /^(?:\x1b)?\[<(\d+);(\d+);(\d+)([Mm])$/,
\* or Null
SGR_MOUSE_RE(s) ==
    LET t == IF s # <<>> /\ s[1] = ESC THEN Tail(s) ELSE s
        b == DigitsEnd(t, 3)
        c == DigitsEnd(t, b + 1)
        d == DigitsEnd(t, c + 1)
    IN  IF /\ Len(t) >= 2 /\ t[1] = "[" /\ t[2] = "<"
           /\ b > 3 /\ b <= Len(t) /\ t[b] = ";"
           /\ c > b + 1 /\ c <= Len(t) /\ t[c] = ";"
           /\ d > c + 1 /\ d = Len(t) /\ t[d] \in {"M", "m"}
        THEN <<SubSeq(t, 3, b - 1), SubSeq(t, b + 1, c - 1), SubSeq(t, c + 1, d - 1), t[d]>>
        ELSE Null

\* cb & bit, for a bit 1, 2, 4, ... and a button code below 2^31
BitAnd(cb, bit) == IF (cb \div bit) % 2 = 1 THEN bit ELSE 0

\* mods.join(":")
RECURSIVE Join(_)
Join(mods) ==
    IF mods = <<>> THEN ""
    ELSE IF Len(mods) = 1 THEN mods[1]
    ELSE mods[1] \o ":" \o Join(Tail(mods))

\* the modifiers named alt before shift
ModifierOfAltFirst(cb) ==
    Join((IF BitAnd(cb, 8) # 0 THEN <<"alt">> ELSE <<>>)
         \o (IF BitAnd(cb, 4) # 0 THEN <<"shift">> ELSE <<>>)
         \o (IF BitAnd(cb, 16) # 0 THEN <<"ctrl">> ELSE <<>>))

\* the modifiers of bits 2-4, pushed in the order shift, alt, ctrl and joined
ModifierOf(cb) ==
    Join((IF BitAnd(cb, 4) # 0 THEN <<"shift">> ELSE <<>>)
         \o (IF BitAnd(cb, 8) # 0 THEN <<"alt">> ELSE <<>>)
         \o (IF BitAnd(cb, 16) # 0 THEN <<"ctrl">> ELSE <<>>))

\* the action of a button that is not the wheel
ButtonAction(cb, isRelease) ==
    IF isRelease THEN "release"
    ELSE IF BitAnd(cb, 32) # 0 THEN "drag"
    ELSE "press"

\* parseMouseEvent(s)
parseMouseEvent(s) ==
    LET match == SGR_MOUSE_RE(s)
        cb == parseInt(match[1])
        col == parseInt(match[2]) - 1
        row == parseInt(match[3]) - 1
        isRelease == match[4] = "m"
        modifier == ModifierOf(cb)
        buttonBits == BitAnd(cb, 1) + BitAnd(cb, 2)
    IN  IF match = Null THEN Null
        ELSE IF BitAnd(cb, 64) # 0
        THEN [button |-> "wheel",
              action |-> IF BitAnd(cb, 1) = 0 THEN "scroll_up" ELSE "scroll_down",
              modifier |-> modifier, col |-> col, row |-> row]
        ELSE [button |-> IF buttonBits = 0 THEN "left"
                         ELSE IF buttonBits = 1 THEN "middle" ELSE "right",
              action |-> ButtonAction(cb, isRelease),
              modifier |-> modifier, col |-> col, row |-> row]

\* the pre-check with each length one more
isMouseSequenceLonger(s) ==
    \/ Len(s) >= 10 /\ s[1] = ESC /\ s[2] = "[" /\ s[3] = "<"
    \/ Len(s) >= 9 /\ s[1] = "[" /\ s[2] = "<"

\* isMouseSequence(s)
isMouseSequence(s) ==
    \/ Len(s) >= 9 /\ s[1] = ESC /\ s[2] = "[" /\ s[3] = "<"
    \/ Len(s) >= 8 /\ s[1] = "[" /\ s[2] = "<"

\* a call of parseMouseEvent and of isMouseSequence on the same string; the
\* string and what they return are kept
ParseMouseEvent(s) ==
    /\ lastOp' = [op |-> "parseMouseEvent", s |-> s, event |-> parseMouseEvent(s),
                  isMouse |-> isMouseSequence(s)]
    /\ UNCHANGED <<width, height, cells, dirtyRows, generation, flushes, frames,
                   attrVars, viewVars, clientVars>>

(* ------------------------------ the input hook ------------------------- *)

\* The input string as keyToNeovimInput takes it: the characters joined. The
\* escape character, which a string here cannot hold, is written as a form
\* feed: one character that keyToNeovimInput does not test for.
RECURSIVE Text(_)
Text(s) ==
    IF s = <<>> THEN ""
    ELSE (IF Head(s) = ESC THEN "\f" ELSE Head(s)) \o Text(Tail(s))

\* isModified without the shift flag
isModifiedNoShift(key) == key \ {"shift"} # {}

\* isModified: one of ctrl, meta, shift or of the thirteen special keys is set
isModified(key) == key # {}

\* The callback useRawInput gives to useInput: the calls it makes of onMouse,
\* onPaste and sendInput, in order.
useRawInput(input, key) ==
    IF isMouseSequence(input) /\ parseMouseEvent(input) # Null
    THEN << [sink |-> "onMouse", arg |-> parseMouseEvent(input)] >>
    ELSE IF Len(input) > 1 /\ ~isModified(key)
    THEN << [sink |-> "onPaste", arg |-> input] >>
    ELSE IF keyToNeovimInput(Text(input), key) # ""
    THEN << [sink |-> "sendInput", arg |-> keyToNeovimInput(Text(input), key)] >>
    ELSE <<>>

\* one run of the callback; its arguments and the calls it made are kept
UseRawInput(input, key) ==
    /\ lastOp' = [op |-> "useRawInput", input |-> input, key |-> key,
                  calls |-> useRawInput(input, key)]
    /\ UNCHANGED <<width, height, cells, dirtyRows, generation, flushes, frames,
                   attrVars, viewVars, clientVars>>

(* ---------------------------- the state machine ------------------------ *)

Widths == {1, 2}

Heights == 1..MaxHeight

Deltas == (0 - MaxDelta)..MaxDelta

\* the ScreenBuffer as constructed, nothing logged, nothing rendered
Constructed ==
    /\ width \in Widths
    /\ height \in Heights
    /\ cells = NewCells(width, height)
    /\ dirtyRows = {}
    /\ generation = 0
    /\ hlAttrs = <<>>
    /\ defaultColors = [fg |-> 16777215, bg |-> 0, sp |-> 16711680]
    /\ cursor = [grid |-> 1, row |-> 0, col |-> 0, modeIdx |-> 0, visible |-> TRUE]
    /\ modeInfoList = <<>>
    /\ unhandled = <<>>
    /\ frames = <<>>
    /\ lastOp = [op |-> "constructor"]
    /\ flushes = 0
    /\ flushed = {}
    /\ shown = [generation |-> 0 - 1, cursorCol |-> <<>>,
                cursorShape |-> "block", cursorAttr |-> {}]

\* The state after start-up: init has run to its end, the listener is
\* registered, no message is under way.
Init ==
    /\ Constructed
    /\ requests = <<>>
    /\ channel = <<>>
    /\ initPc = "done"
    /\ listening = TRUE

\* a grid_resize event
Resize == \E w \in Widths, h \in Heights : GridResize(w, h)

\* a grid_line event for one of the given rows
Line(rowSet, lists) ==
    \E row \in rowSet, colStart \in 0..(width - 1), runs \in lists :
        GridLine(row, colStart, runs)

\* the regions <<top, bot, left, right>> inside a grid of w columns and h rows
Regions(w, h) ==
    { reg \in (0..h) \X (0..h) \X (0..w) \X (0..w) : reg[1] < reg[2] /\ reg[3] < reg[4] }

\* the regions that span every column
RowRegions(w, h) == { reg \in Regions(w, h) : reg[3] = 0 /\ reg[4] = w }

\* a grid_scroll event for one of the given regions
Scroll(regions) ==
    \E reg \in regions, rows \in Deltas :
        GridScroll(reg[1], reg[2], reg[3], reg[4], rows)

\* Every operation, frame after frame; scrolls span every column.
Next ==
    \/ Resize
    \/ Line(AllRows(height), FrameRuns)
    \/ Scroll(RowRegions(width, height))
    \/ GridClear
    \/ Flush

Spec == Init /\ [][Next]_vars

\* The operations that write cells, within one frame; scrolls of every region.
NextScroll ==
    \/ Resize
    \/ Line(AllRows(height), FrameRuns)
    \/ Scroll(Regions(width, height))
    \/ GridClear

SpecScroll == Init /\ [][NextScroll]_vars

\* Lines of every kind on a grid that is resized and cleared; row = height is
\* a row the grid does not have.
NextLines ==
    \/ Resize
    \/ Line(0..height, RunLists)
    \/ GridClear

SpecLines == Init /\ [][NextLines]_vars

(* ------------------- colors, attributes and the cursor ----------------- *)

\* the channel values a default_colors_set event is applied with
ColorArgs == {0 - 1, 1}

\* a default_colors_set event
Colors == \E fg \in ColorArgs, bg \in ColorArgs, sp \in ColorArgs : DefaultColorsSet(fg, bg, sp)

\* The operations that mark every row dirty, and flush, on a grid with a
\* written cell, a defined attribute and a hidden cursor.
NextColors ==
    \/ Resize
    \/ GridClear
    \/ Colors
    \/ Flush
    \/ GridLine(0, 0, << <<"a", 1>> >>)
    \/ HlAttrDefine(1, [bold |-> TRUE])
    \/ BusyStart

SpecColors == Init /\ [][NextColors]_vars

\* the ids an hl_attr_define event is applied with
HlIds == {1, 2}

\* The rgb_attr maps an hl_attr_define event is applied with: empty, one flag,
\* another flag, a flag sent as false, colors and blend, a color of 0 with a
\* flag, and the flag dim.
RgbAttrs ==
    { [k \in {} |-> TRUE],
      [bold |-> TRUE],
      [italic |-> TRUE],
      [bold |-> FALSE, undercurl |-> TRUE],
      [foreground |-> 1, background |-> 2, special |-> 3, blend |-> 50],
      [foreground |-> 0, reverse |-> TRUE],
      [dim |-> TRUE, strikethrough |-> TRUE] }

\* an hl_attr_define event
Define == \E id \in HlIds, rgbAttr \in RgbAttrs : HlAttrDefine(id, rgbAttr)

\* Definitions of attributes, one after another.
NextAttrs == Define

SpecAttrs == Init /\ [][NextAttrs]_vars

\* the positions and mode indices the cursor is sent to
CursorArgs == {0, 1}

\* the mode tables a mode_info_set event is applied with
ModeLists ==
    { << [name |-> "normal", cursor_shape |-> "block", blinkon |-> 0] >>,
      << [name |-> "normal", cursor_shape |-> "block"],
         [name |-> "insert", cursor_shape |-> "vertical", attr_id |-> 1] >> }

\* The operations on the cursor and the mode table.
NextCursor ==
    \/ \E row \in CursorArgs, col \in CursorArgs : GridCursorGoto(row, col)
    \/ \E list \in ModeLists : ModeInfoSet(list)
    \/ \E modeIdx \in CursorArgs : ModeChange(modeIdx)
    \/ BusyStart
    \/ BusyStop
    \/ Flush

SpecCursor == Init /\ [][NextCursor]_vars

\* the rows, columns and mode indices the cursor is sent to in NextFrame: one
\* inside every grid and one outside
FrameArgs == {0, MaxHeight}

\* Every operation of the ScreenBuffer, each with one or two argument lists:
\* those that set a field of the cursor and those that set none.
NextFrame ==
    \/ \E row \in FrameArgs, col \in FrameArgs : GridCursorGoto(row, col)
    \/ \E modeIdx \in FrameArgs : ModeChange(modeIdx)
    \/ BusyStart
    \/ BusyStop
    \/ GridResize(2, 2)
    \/ GridLine(0, 0, << <<"a", 1>> >>)
    \/ GridScroll(0, 1, 0, 1, 1)
    \/ GridClear
    \/ HlAttrDefine(1, [bold |-> TRUE])
    \/ DefaultColorsSet(1, 0 - 1, 0 - 1)
    \/ ModeInfoSet(<< [name |-> "normal", cursor_shape |-> "block"] >>)
    \/ Flush

SpecFrame == Init /\ [][NextFrame]_vars

(* ------------------------------ rendered rows -------------------------- *)

\* the width of the rows that are rendered
RowWidth == 3

\* The grid_line runs the rendered rows are written with: two neighbours of
\* one id before another id, id 0 around id 1, a wide glyph with its empty
\* continuation cell, and one glyph repeated.
RowRuns ==
    { << <<"a", 1>>, <<"b">>, <<"c", 2>> >>,
      << <<"a", 0>>, <<"b", 1>>, <<"c", 0>> >>,
      << <<"w", 1>>, <<"", 1>>, <<"x", 2>> >>,
      << <<"a", 2, MaxRepeat>> >> }

\* The rgb_attr maps id 1 is defined with: colors swapped by reverse, and every
\* decoration with an underline color.
RowAttrsOne ==
    { [foreground |-> 16711680, background |-> 255, reverse |-> TRUE],
      [bold |-> TRUE, italic |-> TRUE, undercurl |-> TRUE, underline |-> TRUE,
       strikethrough |-> TRUE, special |-> 65280] }

\* The rgb_attr maps id 2 is defined with: dim with strikethrough, and none.
RowAttrsTwo ==
    { [dim |-> TRUE, strikethrough |-> TRUE],
      [k \in {} |-> TRUE] }

\* Rows written and attributes defined, then rendered: a grid of one row of
\* RowWidth cells, lines written from column 0 and one from column 1,
\* attributes for ids 1 and 2 and for id 0, another default foreground.
NextHighlight ==
    \/ GridResize(RowWidth, 1)
    \/ \E runs \in RowRuns : GridLine(0, 0, runs)
    \/ GridLine(0, 1, << <<"", 0>> >>)
    \/ \E rgbAttr \in RowAttrsOne : HlAttrDefine(1, rgbAttr)
    \/ \E rgbAttr \in RowAttrsTwo : HlAttrDefine(2, rgbAttr)
    \/ HlAttrDefine(0, [foreground |-> 16711680, bold |-> TRUE])
    \/ DefaultColorsSet(65280, 0 - 1, 0 - 1)
    \/ Render

SpecHighlight == Init /\ [][NextHighlight]_vars

(* -------------------------------- wide glyphs -------------------------- *)

\* The cells arrays that rewrite a whole row of a grid of Widths columns: a
\* wide glyph followed by its empty continuation cell, and two narrow glyphs.
WideRuns ==
    { << <<"w", 1>>, <<"">> >>,
      << <<"a", 2>>, <<"b">> >> }

\* Rows rewritten from column 0, the left cell of row 0 written alone, rows
\* scrolled over every column, the grid resized and cleared.
NextWide ==
    \/ Resize
    \/ \E row \in AllRows(height), runs \in WideRuns : GridLine(row, 0, runs)
    \/ GridLine(0, 0, << <<"a", 2>> >>)
    \/ Scroll(RowRegions(width, height))
    \/ GridClear

SpecWide == Init /\ [][NextWide]_vars

(* ------------------------------ the cursor overlay --------------------- *)

\* A row written and an attribute defined, the cursor moved along it, shown
\* and hidden while the mode table and the mode change, and renders of
\* NeovimScreen in between.
NextOverlay ==
    \/ GridLine(0, 0, << <<"a", 1>>, <<"b">> >>)
    \/ HlAttrDefine(1, [foreground |-> 16711680, background |-> 255])
    \/ \E col \in CursorArgs : GridCursorGoto(0, col)
    \/ \E list \in ModeLists : ModeInfoSet(list)
    \/ \E modeIdx \in CursorArgs : ModeChange(modeIdx)
    \/ BusyStart
    \/ BusyStop
    \/ Render

SpecOverlay == Init /\ [][NextOverlay]_vars

(* ------------------------------- mode indices -------------------------- *)

\* mode tables of one and two entries, with an entry that names no shape
ShapeLists ==
    { << [name |-> "normal", cursor_shape |-> "horizontal"] >>,
      << [name |-> "normal", cursor_shape |-> "block"],
         [name |-> "insert", cursor_shape |-> "vertical", attr_id |-> 1] >>,
      << [name |-> "normal"], [name |-> "replace", cursor_shape |-> "horizontal"] >> }

\* the mode indices sent: below the table, inside it, past its end
ModeIndices == {0 - 1, 0, 1, 2}

\* Mode tables and mode changes in any order, with the cursor moving and the
\* screen rendered in between.
NextModes ==
    \/ \E list \in ShapeLists : ModeInfoSet(list)
    \/ \E modeIdx \in ModeIndices : ModeChange(modeIdx)
    \/ \E col \in CursorArgs : GridCursorGoto(0, col)
    \/ BusyStart
    \/ BusyStop
    \/ Render

SpecModes == Init /\ [][NextModes]_vars

(* ---------------------------------- keys ------------------------------- *)

\* the flags of a key event that name a special key, and its modifier flags
SpecialKeys ==
    {"return", "escape", "backspace", "delete", "tab", "upArrow", "downArrow",
     "leftArrow", "rightArrow", "pageUp", "pageDown", "home", "end"}

Modifiers == {"ctrl", "meta", "shift"}

\* the sets of at most n special keys
RECURSIVE UpTo(_)
UpTo(n) ==
    IF n = 0 THEN {{}}
    ELSE UpTo(n - 1) \cup { t \cup {k} : t \in UpTo(n - 1), k \in SpecialKeys }

\* the key events with at most n special keys, under every set of modifiers
KeyEvents(n) == { s \cup m : s \in UpTo(n), m \in SUBSET Modifiers }

\* the input strings tried: none, two letters, the four escaped characters and
\* a string of four characters
KeyInputs == {"", "a", "x", "<", "\\", "|", " ", "<CR>"}

\* Key events decoded one after another: one special key or none, under
\* every set of modifiers, with every input string.
NextKeys == \E input \in KeyInputs, key \in KeyEvents(1) : KeyToNeovimInput(input, key)

SpecKeys == Init /\ [][NextKeys]_vars

(* ------------------------------ mouse sequences ------------------------ *)

\* the largest button code of the sequences decoded: every combination of
\* the bits 1, 2, 4, 8, 16, 32, 64
MaxCode == 127

\* the decimal digits of a number
RECURSIVE Decimal(_)
Decimal(n) ==
    IF n < 10 THEN <<DigitChars[n + 1]>>
    ELSE Decimal(n \div 10) \o <<DigitChars[(n % 10) + 1]>>

\* the sequence a terminal sends, with the escape character or stripped of it
Sgr(esc, cb, cx, cy, final) ==
    (IF esc THEN <<ESC>> ELSE <<>>) \o <<"[", "<">> \o Decimal(cb) \o <<";">>
        \o Decimal(cx) \o <<";">> \o Decimal(cy) \o <<final>>

\* Every button code at one place, one code at the places around the origin
\* and at a far one, and numbers written with leading zeros.
MouseSequences ==
    { Sgr(esc, cb, 10, 5, final) :
        esc \in BOOLEAN, cb \in 0..MaxCode, final \in {"M", "m"} }
    \cup { Sgr(esc, 0, cx, cy, "M") : esc \in BOOLEAN, cx \in {0, 1, 200}, cy \in {0, 1, 99} }
    \cup { <<"[", "<", "0", "6", "5", ";", "0", "1", ";", "0", "0", "2", "M">>,
           <<ESC, "[", "<", "0", "0", ";", "1", ";", "1", "m">> }

\* Strings that are no mouse sequence: keys, sequences cut short, a wrong
\* final character, a missing or a signed number, a fourth number, text before
\* or after the sequence.
OtherStrings ==
    { <<>>, <<"a">>, <<ESC>>, <<"[", "A">>, <<ESC, "[", "A">>,
      <<ESC, "[", "1", ";", "5", "A">>,
      <<"[", "<", "0", ";", "1">>, <<ESC, "[", "<", "0", ";", "1">>,
      <<"[", "<", "0", ";", "1", ";", "1">>,
      <<"[", "<", "0", ";", "1", ";", "1", "X">>,
      <<ESC, "[", "<", "0", ";", "1", ";", "1", "X">>,
      <<"[", "<", ";", "1", "0", ";", "1", "M">>,
      <<"[", "<", "0", ";", ";", "1", "0", "M">>,
      <<"[", "<", "0", ";", "1", "0", ";", "M">>,
      <<"[", "<", "-", "1", ";", "1", ";", "1", "M">>,
      <<"[", "<", "0", ";", "1", ";", "1", ";", "1", "M">>,
      <<"[", "<", "0", ";", "1", "0", "1", "0", "M">>,
      <<"[", "<", "0", ";", "1", ";", "1", "M", "M">>,
      <<"[", "<", "0", ";", "1", ";", "1", "M", "a">>,
      <<"a", "[", "<", "0", ";", "1", ";", "1", "M">>,
      <<ESC, ESC, "[", "<", "0", ";", "1", ";", "1", "M">>,
      <<"<", "0", ";", "1", ";", "1", ";", "1", "M">>,
      <<ESC, "<", "0", ";", "1", ";", "1", ";", "1", "M">>,
      <<"[", "<", "0", ";", "1", "a", ";", "1", "M">> }

\* Strings decoded one after another.
NextMouse == \E s \in MouseSequences \cup OtherStrings : ParseMouseEvent(s)

SpecMouse == Init /\ [][NextMouse]_vars

(* ------------------------------- terminal input ------------------------ *)

\* What the terminal delivers: nothing, single characters, text of two and
\* three characters, mouse sequences in both forms (of eight characters and
\* longer), and strings that start as a mouse sequence and are none.
RawInputs ==
    { <<>>, <<"a">>, <<"<">>, <<" ">>, <<"a", "b">>, <<"a", "<", "b">>,
      Sgr(TRUE, 0, 10, 5, "M"), Sgr(FALSE, 65, 10, 5, "M"), Sgr(FALSE, 0, 1, 1, "m"),
      <<"[", "<", "0", ";", "1", ";", "1", "X">>,
      <<ESC, "[", "<", "0", ";", "1", ";", "1", "X">>,
      <<"[", "<", "0", ";", "1">> }

\* the key events: no special key or one of three, under every set of modifiers
RawKeys ==
    { s \cup m : s \in {{}, {"return"}, {"tab"}, {"upArrow"}}, m \in SUBSET Modifiers }

\* Input callbacks, one after another.
NextInput == \E input \in RawInputs, key \in RawKeys : UseRawInput(input, key)

SpecInput == Init /\ [][NextInput]_vars

(* ---------------------------- redraw notifications --------------------- *)

\* One event of each name the handler dispatches, two grid_line tuples that
\* write the same cell, and a grid_scroll that throws.
LineA == <<1, 0, 0, << <<"a", 1>> >> >>
LineB == <<1, 0, 0, << <<"b", 2>> >> >>
DispatchedEvents ==
    { <<"grid_resize", <<1, 2, 2>> >>,
      <<"grid_line", LineA>>,
      <<"grid_line", LineA, LineB>>,
      <<"grid_cursor_goto", <<1, 0, 1>> >>,
      <<"grid_scroll", <<1, 0, 1, 0, 1, 1>> >>,
      <<"grid_scroll", <<1, 0, 1, 0, 1, MaxDelta>> >>,
      <<"grid_clear", <<1>> >>,
      <<"hl_attr_define", <<1, [bold |-> TRUE]>> >>,
      <<"default_colors_set", <<1, 0 - 1, 1>> >>,
      <<"mode_info_set", <<TRUE, << [cursor_shape |-> "vertical"] >> >> >>,
      <<"mode_change", <<"insert", 1>> >>,
      <<"busy_start", <<>> >>,
      <<"busy_stop", <<>> >>,
      <<"flush", <<>> >>,
      <<"flush", <<>>, <<>> >> }

\* the names known but intentionally ignored
NoOpNames ==
    {"option_set", "mouse_on", "mouse_off", "set_title", "set_icon", "chdir",
     "hl_group_set", "update_menu", "win_viewport"}

\* an ignored event with no tuple, one tuple, two tuples
NoOpEvents ==
    { <<name>> : name \in NoOpNames } \cup { <<name, <<0>> >> : name \in NoOpNames }
        \cup { <<name, <<0>>, <<0, 1>> >> : name \in NoOpNames }

\* names of events of the protocol that the handler does not know
UnknownNames == {"msg_show", "win_pos"}

UnknownEvents ==
    { <<name>> : name \in UnknownNames } \cup { <<name, <<0>> >> : name \in UnknownNames }
        \cup { <<name, <<0>>, <<0, 1>> >> : name \in UnknownNames }

\* the events that follow another in the notifications of two events
Followers == DispatchedEvents \cup { <<"msg_show", <<0>> >> }

\* every notification of one event, and of two events
AnyBatches ==
    LET Events == DispatchedEvents \cup NoOpEvents \cup UnknownEvents
    IN  { <<e>> : e \in Events } \cup { <<e, f>> : e \in Events, f \in Followers }

\* The notifications the handler is run on: the operations on the cells and
\* the cursor, and flush.
Batches ==
    { << <<"grid_line", LineA, LineB>> >>,
      << <<"grid_line", LineA>>, <<"flush", <<>> >> >>,
      << <<"flush", <<>> >>, <<"grid_line", LineB>> >>,
      << <<"flush", <<>>, <<>> >> >>,
      << <<"grid_resize", <<1, 2, 2>> >> >>,
      << <<"grid_clear", <<1>> >>, <<"grid_cursor_goto", <<1, 0, 1>> >> >>,
      << <<"grid_scroll", <<1, 0, 1, 0, 1, MaxDelta>> >>, <<"grid_line", LineA>> >> }

NextRedraw == \E args \in Batches : Redraw(args)

SpecRedraw == Init /\ [][NextRedraw]_vars

\* The notifications with events the handler ignores or does not know,
\* between frames that write a cell.
EventBatches ==
    { << <<"msg_show", <<0>>, <<0, 1>> >>, <<"grid_line", LineA>> >>,
      << <<"win_pos">> >>,
      << <<"option_set", <<0>> >>, <<"mouse_on", <<0>> >>, <<"mouse_off", <<0>> >>,
         <<"set_title", <<0>> >>, <<"set_icon", <<0>> >>, <<"chdir", <<0>> >>,
         <<"hl_group_set", <<0>> >>, <<"update_menu", <<0>> >>,
         <<"win_viewport", <<0>> >> >>,
      << <<"grid_line", LineB>>, <<"flush", <<>> >> >>,
      << <<"grid_clear", <<1>> >> >> }

NextEvents == \E args \in EventBatches : Redraw(args)

SpecEvents == Init /\ [][NextEvents]_vars

\* The notifications delivered while the renderer runs: a frame in one
\* notification, a frame in two, a move of the cursor.
RenderBatches ==
    { << <<"grid_line", LineA>>, <<"flush", <<>> >> >>,
      << <<"grid_line", LineB>> >>,
      << <<"grid_cursor_goto", <<1, 0, 1>> >> >>,
      << <<"grid_clear", <<1>> >> >>,
      << <<"flush", <<>> >> >> }

\* Notifications and renders, in any order.
NextRender ==
    \/ \E args \in RenderBatches : Redraw(args)
    \/ Render

SpecRender == Init /\ [][NextRender]_vars

(* -------------------------------- resizing ----------------------------- *)

\* the most requests and messages under way at once
MaxPending == 2

\* What Neovim redraws after a resize to w columns and h rows: the grid_resize
\* event and the end of the frame, in one notification or in two.
ResizeRedraws(w, h) ==
    { << << <<"grid_resize", <<1, w, h>> >>, <<"flush", <<>> >> >> >>,
      << << <<"grid_resize", <<1, w, h>> >> >>, << <<"flush", <<>> >> >> >> }

\* Neovim redraws a line on its own account.
NvimRedraws ==
    /\ Len(requests) + Len(channel) < MaxPending
    /\ channel' = Append(channel, Notification(<< <<"grid_line", LineA>> >>))
    /\ lastOp' = [op |-> "nvim", method |-> "redraw"]
    /\ UNCHANGED <<width, height, cells, dirtyRows, generation, flushes, frames,
                   attrVars, viewVars, requests, initPc, listening>>

\* The terminal is resized while Neovim redraws: requests of a new size, the
\* answers of Neovim, and their dispatch, in any order.
NextResize ==
    \/ \E w \in Widths, h \in Heights :
          Len(requests) + Len(channel) < MaxPending /\ UseNeovimResize(w, h)
    \/ /\ requests # <<>>
       /\ \E notifications \in ResizeRedraws(Head(requests)[2], Head(requests)[3]) :
             NvimHandles(notifications)
    \/ NvimRedraws
    \/ Deliver

SpecResize == Init /\ [][NextResize]_vars

(* -------------------------------- start-up ----------------------------- *)

\* init of useNeovim has sent nvim_ui_attach with the size of the ScreenBuffer
\* and awaits the response; setupRedrawHandler has not run.
InitAttach ==
    /\ Constructed
    /\ requests = << <<"nvim_ui_attach", width, height>> >>
    /\ channel = <<>>
    /\ initPc = "attach"
    /\ listening = FALSE

\* What Neovim redraws after nvim_ui_attach: the size of the grid, the default
\* colors, an attribute, a line and the end of the frame, in one notification,
\* in two, or in three.
AttachRedraws(w, h) ==
    { << << <<"grid_resize", <<1, w, h>> >>, <<"default_colors_set", <<1, 0 - 1, 1>> >>,
            <<"hl_attr_define", <<1, [bold |-> TRUE]>> >>, <<"grid_line", LineA>>,
            <<"flush", <<>> >> >> >>,
      << << <<"grid_resize", <<1, w, h>> >>, <<"default_colors_set", <<1, 0 - 1, 1>> >>,
            <<"hl_attr_define", <<1, [bold |-> TRUE]>> >> >>,
         << <<"grid_line", LineA>>, <<"flush", <<>> >> >> >>,
      << << <<"grid_resize", <<1, w, h>> >> >>,
         << <<"default_colors_set", <<1, 0 - 1, 1>> >>,
            <<"hl_attr_define", <<1, [bold |-> TRUE]>> >> >>,
         << <<"grid_line", LineA>>, <<"flush", <<>> >> >> >> }

\* Start-up: Neovim answers nvim_ui_attach and redraws, the client dispatches
\* what it reads, and init goes on once the response is dispatched.
NextStartup ==
    \/ /\ requests # <<>>
       /\ \E notifications \in AttachRedraws(Head(requests)[2], Head(requests)[3]) :
             NvimHandles(notifications)
    \/ Deliver
    \/ SetupRedrawHandler

SpecStartup == InitAttach /\ [][NextStartup]_vars

(* --------------------------------- frames ------------------------------ *)

\* The notifications of one event that change cells or end a frame, for a
\* grid of w columns and h rows: a resize to another height, a line from
\* column 0 at any row the grid has and at the first row it does not have, a
\* scroll of whole rows by one row, a clear, a flush.
CellBatches(w, h) ==
    { << <<"grid_resize", <<1, w, h2>> >> >> : h2 \in Heights }
    \cup { << <<"grid_line", <<1, row, 0, << <<"a", 1, MaxRepeat>> >> >> >> >> : row \in 0..h }
    \cup { << <<"grid_scroll", <<1, reg[1], reg[2], reg[3], reg[4], rows>> >> >> :
             reg \in RowRegions(w, h), rows \in {0 - 1, 1} }
    \cup { << <<"grid_clear", <<1>> >> >>, << <<"flush", <<>> >> >> }

\* Frames built of such notifications, applied by the handler.
NextCells == \E args \in CellBatches(width, height) : Redraw(args)

SpecCells == Init /\ [][NextCells]_vars

(* ------------------------- properties of the grid ---------------------- *)

Blank(g, r, c) == g[r + 1][c + 1] = makeCell

NonBlankRow(row) == \E c \in 1..Len(row) : row[c] # makeCell

Abs(n) == IF n < 0 THEN 0 - n ELSE n

\* C1: at every reachable state cells has exactly `height` rows and every row
\* has exactly `width` cells.
GridShape ==
    /\ Len(cells) = height
    /\ \A r \in 1..Len(cells) : Len(cells[r]) = width

\* a grid made narrower and taller by a resize, with content kept, in a later frame
GridShapeWitness ==
    /\ lastOp.op = "gridResize"
    /\ generation > 0
    /\ width = 1
    /\ height = MaxHeight
    /\ cells[1][1] # makeCell

(* ------------------------------- gridLine ------------------------------ *)

\* the repeat count a run asks for
ExpectedRepeat(runs, i) == IF Len(runs[i]) = 3 THEN runs[i][3] ELSE 1

\* the highlight a run asks for: its own, else that of the nearest earlier run
\* of the same list that gives one, else 0
ExpectedHlId(runs, i) ==
    LET given == { j \in 1..i : Len(runs[j]) >= 2 }
    IN  IF given = {} THEN 0
        ELSE runs[CHOOSE j \in given : \A k \in given : k <= j][2]

\* the number of columns the runs before run i take
RECURSIVE ColumnsBefore(_, _)
ColumnsBefore(runs, i) ==
    IF i <= 1 THEN 0 ELSE ColumnsBefore(runs, i - 1) + ExpectedRepeat(runs, i - 1)

TotalColumns(runs) == ColumnsBefore(runs, Len(runs) + 1)

\* C2: gridLine on a valid row writes the runs left to right from colStart, one
\* column per repetition; the repeat count is 1 when omitted; the highlight is
\* the run's own or, when omitted, that of the preceding run of the same call
\* (0 if none gave one), whatever earlier calls wrote.
GridLineWritesRuns ==
    \A row \in AllRows(height), colStart \in 0..(width - 1), runs \in RunLists :
        LET res == GridLineCells(cells, width, row, colStart, runs)
        IN  \A i \in 1..Len(runs) :
                \A k \in 0..(ExpectedRepeat(runs, i) - 1) :
                    LET col == colStart + ColumnsBefore(runs, i) + k
                    IN  col < width =>
                            res[row + 1][col + 1] =
                                [text |-> runs[i][1], hlId |-> ExpectedHlId(runs, i)]

\* a line whose second run omits the highlight has been written after a run
\* that gave highlight 1, and a line whose first run omits it lies above
GridLineWitness ==
    /\ lastOp.op = "gridLine"
    /\ width = 2
    /\ height >= 2
    /\ cells[1] = << [text |-> "a", hlId |-> 0], [text |-> "a", hlId |-> 1] >>
    /\ cells[2] = << [text |-> "a", hlId |-> 1], [text |-> "a", hlId |-> 1] >>
    /\ cells = GridLineCells(cells, width, 1, 0, << <<"a", 1>>, <<"a">> >>)

\* C3: gridLine changes only cells of `row` at the columns from colStart up to
\* (not including) min(colStart + total repetitions, width); nothing lands past
\* width or in another row, and no row changes its length.
GridLineFrame ==
    \A row \in 0..height, colStart \in 0..(width - 1), runs \in RunLists :
        LET res == GridLineCells(cells, width, row, colStart, runs)
            end == Min(colStart + TotalColumns(runs), width)
        IN  /\ Len(res) = Len(cells)
            /\ \A r \in 1..Len(cells) :
                /\ Len(res[r]) = Len(cells[r])
                /\ \A c \in 1..Len(cells[r]) :
                      (r # row + 1 \/ c - 1 < colStart \/ c - 1 >= end)
                          => res[r][c] = cells[r][c]

\* a repeating run written at the last column: its second cell was dropped,
\* the column before it and the row below kept what they had
GridLineFrameWitness ==
    /\ lastOp.op = "gridLine"
    /\ width = 2
    /\ height >= 2
    /\ cells[1] = << [text |-> "a", hlId |-> 0], [text |-> "a", hlId |-> 1] >>
    /\ cells[2] = << [text |-> "a", hlId |-> 0], makeCell >>
    /\ cells = GridLineCells(cells, width, 0, 1, << <<"a", 1, MaxRepeat>> >>)

(* ------------------------------ gridResize ----------------------------- *)

\* C4: after a resize to (w, h) every cell inside both the old and the new grid
\* has the text and highlight it had, and every other cell of the new grid is blank.
GridResizeKeeps ==
    \A w \in Widths, h \in Heights :
        LET res == GridResizeCells(cells, width, height, w, h)
        IN  /\ Len(res) = h
            /\ \A r \in 1..h :
                /\ Len(res[r]) = w
                /\ \A c \in 1..w :
                      res[r][c] = IF r <= Min(height, h) /\ c <= Min(width, w)
                                  THEN cells[r][c]
                                  ELSE makeCell

\* a grid grown in both dimensions by a resize: the old cell kept, the new ones blank
GridResizeWitness ==
    /\ lastOp.op = "gridResize"
    /\ width = 2
    /\ height = 2
    /\ cells[1] = << [text |-> "a", hlId |-> 1], makeCell >>
    /\ cells[2] = << makeCell, makeCell >>
    /\ dirtyRows = {0, 1}

(* ------------------------------ gridScroll ----------------------------- *)

ScrollDownMoves ==
    \A reg \in Regions(width, height), rows \in Deltas :
        LET top == reg[1]
            bot == reg[2]
            res == GridScrollResult(cells, dirtyRows, top, bot, reg[3], reg[4], rows)
        IN  rows < 0 =>
                \A c \in reg[3]..(reg[4] - 1) :
                    /\ \A r \in (top - rows)..(bot - 1) :
                          res.cells[r + 1][c + 1] = cells[r + rows + 1][c + 1]
                    /\ \A r \in top..(top - rows - 1) :
                          HasRow(res.cells, r) => Blank(res.cells, r, c)

\* after a scroll down: a blank first row above two different rows of content
ScrollDownWitness ==
    /\ lastOp.op = "gridScroll"
    /\ lastOp.dir = 0 - 1
    /\ ~lastOp.threw
    /\ width = 2
    /\ height = 3
    /\ cells[1] = << makeCell, makeCell >>
    /\ cells[2] = << [text |-> "a", hlId |-> 1], makeCell >>
    /\ cells[3] = << [text |-> "a", hlId |-> 1], [text |-> "a", hlId |-> 1] >>
    /\ dirtyRows = {0, 1, 2}

\* the cells of g outside the region are those of the grid before the call
OutsideKept(res, top, bot, left, right) ==
    /\ Len(res.cells) = Len(cells)
    /\ \A r \in 1..Len(cells) :
        /\ Len(res.cells[r]) = Len(cells[r])
        /\ \A c \in 1..Len(cells[r]) :
              ~(top <= r - 1 /\ r - 1 < bot /\ left <= c - 1 /\ c - 1 < right)
                  => res.cells[r][c] = cells[r][c]

\* C7 as stated: for every region inside the grid and every delta, a
\* gridScroll that returns has left every cell outside the region unchanged.
ScrollFrameAnyDelta ==
    \A reg \in Regions(width, height), rows \in Deltas :
        LET res == GridScrollResult(cells, dirtyRows, reg[1], reg[2], reg[3], reg[4], rows)
        IN  ~res.threw => OutsideKept(res, reg[1], reg[2], reg[3], reg[4])

\* C7, amended: for every region inside the grid and every delta of magnitude
\* at most bot - top, gridScroll leaves every cell outside the region unchanged.
ScrollFrame ==
    \A reg \in Regions(width, height), rows \in Deltas :
        Abs(rows) <= reg[2] - reg[1] =>
            OutsideKept(GridScrollResult(cells, dirtyRows, reg[1], reg[2], reg[3], reg[4], rows),
                        reg[1], reg[2], reg[3], reg[4])

\* after a scroll: content in the first row and in the first column, which a
\* scroll of the rest of the grid leaves in place
ScrollFrameWitness ==
    /\ lastOp.op = "gridScroll"
    /\ lastOp.dir # 0
    /\ ~lastOp.threw
    /\ width = 2
    /\ height = 3
    /\ cells[1] = << [text |-> "a", hlId |-> 1], [text |-> "a", hlId |-> 1] >>
    /\ cells[2] = << [text |-> "a", hlId |-> 1], makeCell >>
    /\ cells[3] = << [text |-> "a", hlId |-> 1], makeCell >>
    /\ dirtyRows = {0, 1, 2}

\* the rows of the region are dirty, and no other row became dirty
RegionDirtied(res, top, bot) ==
    /\ top..(bot - 1) \subseteq res.dirty
    /\ (res.dirty \ dirtyRows) \subseteq top..(bot - 1)

\* C8 as stated: after a gridScroll with a non-zero delta that returns, every
\* row of [top, bot) is dirty and no row outside [top, bot) was added to the
\* dirty set.
ScrollDirtyAnyDelta ==
    \A reg \in Regions(width, height), rows \in Deltas :
        LET res == GridScrollResult(cells, dirtyRows, reg[1], reg[2], reg[3], reg[4], rows)
        IN  (rows # 0 /\ ~res.threw) => RegionDirtied(res, reg[1], reg[2])

\* C8, amended: after gridScroll with a non-zero delta of magnitude at most
\* bot - top every row of [top, bot) is dirty and no row outside [top, bot) was
\* added to the dirty set.
ScrollDirty ==
    \A reg \in Regions(width, height), rows \in Deltas :
        (rows # 0 /\ Abs(rows) <= reg[2] - reg[1]) =>
            RegionDirtied(GridScrollResult(cells, dirtyRows, reg[1], reg[2], reg[3], reg[4], rows),
                          reg[1], reg[2])

\* after a scroll of the rows below the first: they are dirty, the first is not
ScrollDirtyWitness ==
    /\ lastOp.op = "gridScroll"
    /\ lastOp.dir # 0
    /\ ~lastOp.threw
    /\ height = 3
    /\ dirtyRows = {1, 2}
    /\ NonBlankRow(cells[2])

(* --------------------------------- flush ------------------------------- *)

\* C9: each flush raises the generation by exactly 1 and leaves the dirty set
\* empty; a flush that follows a flush directly leaves the generation 2 above
\* what it was before the first, the dirty set empty after each.
FlushTwice ==
    [][ /\ lastOp'.op = "flush" =>
            (generation' = generation + 1 /\ dirtyRows' = {})
        /\ (lastOp.op = "flush" /\ lastOp'.op = "flush") =>
            (generation' = lastOp.before + 2 /\ dirtyRows = {} /\ dirtyRows' = {})
      ]_vars

\* a flush applied directly after a flush
FlushTwiceWitness ==
    /\ lastOp.op = "flush"
    /\ lastOp.again
    /\ generation = 2
    /\ dirtyRows = {}
    /\ \E r \in 1..Len(cells) : NonBlankRow(cells[r])

\* C10: the generation never decreases, only flush changes it, and at every
\* state it is the number of flushes applied since construction.
GenerationCountsFlushes ==
    /\ [](generation = flushes)
    /\ [][ /\ generation' >= generation
           /\ lastOp'.op # "flush" => generation' = generation ]_vars

\* other operations applied after the last flush the bound allows
GenerationWitness ==
    /\ generation = MaxGen
    /\ flushes = MaxGen
    /\ lastOp.op = "gridScroll"
    /\ dirtyRows # {}

(* ------------------------ properties of the handler -------------------- *)

\* the fields of the ScreenBuffer, and whether a call has thrown
BufferOf(s) ==
    [width |-> s.width, height |-> s.height, cells |-> s.cells,
     dirtyRows |-> s.dirtyRows, generation |-> s.generation, hlAttrs |-> s.hlAttrs,
     defaultColors |-> s.defaultColors, cursor |-> s.cursor,
     modeInfoList |-> s.modeInfoList, threw |-> s.threw]

\* the operations of a notification, <<eventName, params>>, in the order of
\* the stream: the tuples of the first event, then those of the second, ...
RECURSIVE OperationsOf(_)
OperationsOf(args) ==
    IF args = <<>> THEN <<>>
    ELSE LET arr == args[Len(args)]
         IN  OperationsOf(SubSeq(args, 1, Len(args) - 1))
                \o [j \in 1..(Len(arr) - 1) |-> <<arr[1], arr[j + 1]>>]

\* the operations applied one after another; one that throws ends the sequence
RECURSIVE ApplyAll(_, _)
ApplyAll(s, ops) ==
    IF s.threw \/ ops = <<>> THEN s
    ELSE ApplyAll(Dispatch(s, Head(ops)[1], Head(ops)[2]), Tail(ops))

\* C11: for every notification, the ScreenBuffer the handler leaves is the one
\* left by applying the operations of all its tuples one after another, events
\* in the order of the batch and tuples in the order of their event.
HandlerAppliesAll ==
    \A args \in AnyBatches :
        BufferOf(HandleEvents(Screen, args)) = BufferOf(ApplyAll(Screen, OperationsOf(args)))

\* a grid_line event with two tuples for one cell: the second tuple was
\* applied, after the first
HandlerAppliesAllWitness ==
    /\ lastOp.op = "redraw"
    /\ lastOp.names = <<"grid_line">>
    /\ lastOp.tuples = <<2>>
    /\ cells[1][1] = [text |-> "b", hlId |-> 2]
    /\ dirtyRows = {0}

\* C12: an event of a name the handler does not know, whatever its tuples,
\* does not make the handler throw, is logged as UNHANDLED, leaves every field
\* of the ScreenBuffer as it was, and the event that follows it in the
\* notification is applied as if it came alone.
UnknownEventIgnored ==
    \A arr \in UnknownEvents :
        LET res == HandleEvent(Screen, arr)
        IN  /\ ~res.threw
            /\ res.unhandled = Append(unhandled, arr[1])
            /\ BufferOf(res) = BufferOf(Screen)
            /\ \A next \in Followers :
                BufferOf(HandleEvents(Screen, <<arr, next>>))
                    = BufferOf(HandleEvents(Screen, <<next>>))

\* an unknown event with two tuples, logged, and the grid_line after it applied
UnknownEventWitness ==
    /\ lastOp.op = "redraw"
    /\ lastOp.names = <<"msg_show", "grid_line">>
    /\ lastOp.tuples = <<2, 1>>
    /\ ~lastOp.threw
    /\ unhandled = <<"msg_show">>
    /\ cells[1][1] = [text |-> "a", hlId |-> 1]

\* C13: each of the events option_set, mouse_on, mouse_off, set_title,
\* set_icon, chdir, hl_group_set, update_menu and win_viewport, with any
\* number of tuples, leaves the ScreenBuffer as it was and adds no UNHANDLED
\* line to the log.
NoOpEventIgnored ==
    /\ NoOpNames = {"option_set", "mouse_on", "mouse_off", "set_title", "set_icon",
                    "chdir", "hl_group_set", "update_menu", "win_viewport"}
    /\ \A arr \in NoOpEvents :
        LET res == HandleEvent(Screen, arr)
        IN  /\ BufferOf(res) = BufferOf(Screen)
            /\ res.unhandled = unhandled

\* the nine events in one notification, after a frame that wrote a cell
NoOpEventWitness ==
    /\ lastOp.op = "redraw"
    /\ Len(lastOp.names) = 9
    /\ lastOp.names[1] = "option_set"
    /\ lastOp.names[9] = "win_viewport"
    /\ unhandled = <<>>
    /\ generation = 1
    /\ cells[1][1] = [text |-> "b", hlId |-> 2]

\* C14: onFlush is called once for each flush tuple and for no other tuple;
\* each call finds the dirty set empty and the generation equal to the number
\* of calls made so far, this one included.
OnFlushPerFlush ==
    /\ \A i \in 1..Len(frames) : frames[i].dirty = {} /\ frames[i].generation = i
    /\ Len(frames) = generation
    /\ \A args \in AnyBatches :
        LET res == HandleEvents(Screen, args)
        IN  ~res.threw => Len(res.frames) = Len(frames) + CountTuples(args, {"flush"})

\* a flush event with two tuples: two calls, in a notification of one event,
\* on a grid that was written
OnFlushWitness ==
    /\ lastOp.op = "redraw"
    /\ lastOp.names = <<"flush">>
    /\ lastOp.tuples = <<2>>
    /\ Len(frames) >= 2
    /\ \E r \in 1..Len(cells) : NonBlankRow(cells[r])

\* C15: whenever the renderer reads the grid, the grid (cells, cursor,
\* attribute table, colors, modes) is as a flush left it. Renders before the
\* first flush read the grid as constructed and are not counted.
RenderReadsFlushed ==
    (lastOp.op = "render" /\ flushed # {}) => GridOf(Screen) \in flushed

(* ---------------- properties of colors, attributes, cursor -------------- *)

\* the channel values a default_colors_set is examined with
AnyColors == {0 - 2, 0 - 1, 0, 1, 16777215}

\* C16: defaultColorsSet(fg, bg, sp) sets each channel on its own: a channel
\* given as -1 keeps its value, a channel given anything else takes it; and
\* the operation changes no cell, no entry of the attribute table and no field
\* of the cursor.
DefaultColorsChannels ==
    /\ [](\A fg \in AnyColors, bg \in AnyColors, sp \in AnyColors :
            LET res == DefaultColorsSetResult(defaultColors, fg, bg, sp)
            IN  /\ res.fg = (IF fg = 0 - 1 THEN defaultColors.fg ELSE fg)
                /\ res.bg = (IF bg = 0 - 1 THEN defaultColors.bg ELSE bg)
                /\ res.sp = (IF sp = 0 - 1 THEN defaultColors.sp ELSE sp))
    /\ [][ lastOp'.op = "defaultColorsSet" =>
            /\ cells' = cells
            /\ hlAttrs' = hlAttrs
            /\ cursor' = cursor
            /\ \A ch \in {"fg", "bg", "sp"} :
                ch \in lastOp'.kept => defaultColors'[ch] = defaultColors[ch]
         ]_vars

\* the middle channel alone was set, on a grid with a written cell, a defined
\* attribute and a hidden cursor
DefaultColorsWitness ==
    /\ lastOp.op = "defaultColorsSet"
    /\ lastOp.kept = {"fg", "sp"}
    /\ defaultColors = [fg |-> 16777215, bg |-> 1, sp |-> 16711680]
    /\ cells[1][1] = [text |-> "a", hlId |-> 1]
    /\ 1 \in DOMAIN hlAttrs
    /\ ~cursor.visible

\* C17: right after gridResize, gridClear and defaultColorsSet, whatever
\* their arguments, every row of the grid is in the dirty set.
AllRowsDirtyAfter ==
    lastOp.op \in {"gridResize", "gridClear", "defaultColorsSet"} =>
        AllRows(height) \subseteq dirtyRows

\* a defaultColorsSet with -1 on every channel, applied to a grid of several
\* rows when no row was dirty
AllRowsDirtyWitness ==
    /\ lastOp.op = "defaultColorsSet"
    /\ lastOp.kept = {"fg", "bg", "sp"}
    /\ lastOp.clean
    /\ generation >= 1
    /\ height >= 2
    /\ dirtyRows = AllRows(height)

\* C18: hlAttrDefine(id, attrs) replaces the entry of id: the entry holds
\* only fields that attrs supplies, with the values of attrs, whatever the id
\* was defined as before; the entries of the other ids are as they were.
HlAttrReplaces ==
    \A id \in HlIds, rgbAttr \in RgbAttrs :
        LET res == HlAttrDefineResult(hlAttrs, id, rgbAttr)
        IN  /\ DOMAIN res = DOMAIN hlAttrs \cup {id}
            /\ DOMAIN res[id] \subseteq DOMAIN rgbAttr
            /\ \A k \in DOMAIN res[id] : res[id][k] = rgbAttr[k]
            /\ \A other \in DOMAIN hlAttrs \ {id} : res[other] = hlAttrs[other]

\* id 1 defined again, as italic, after a definition with another field,
\* while id 2 stays defined
HlAttrReplacesWitness ==
    /\ lastOp.op = "hlAttrDefine"
    /\ lastOp.id = 1
    /\ lastOp.redefined
    /\ DOMAIN hlAttrs = {1, 2}
    /\ DOMAIN hlAttrs[1] = {"italic"}
    /\ DOMAIN hlAttrs[2] # {}

\* C19: after hlAttrDefine(id, attrs) the entry records every supported
\* attribute of attrs: the three colors and blend when present, and each of
\* the flags reverse, italic, bold, strikethrough, dim, underline, undercurl,
\* underdouble, underdotted, underdashed exactly when attrs sets it to true.
HlAttrStoresSupported ==
    lastOp.op = "hlAttrDefine" =>
        LET entry == hlAttrs[lastOp.id]
            rgbAttr == lastOp.rgbAttr
        IN  /\ \A k \in {"foreground", "background", "special", "blend"} :
                k \in DOMAIN rgbAttr => (k \in DOMAIN entry /\ entry[k] = rgbAttr[k])
            /\ \A k \in {"reverse", "italic", "bold", "strikethrough", "dim",
                         "underline", "undercurl", "underdouble", "underdotted",
                         "underdashed"} :
                (k \in DOMAIN entry /\ entry[k] = TRUE)
                    <=> (k \in DOMAIN rgbAttr /\ rgbAttr[k] = TRUE)

\* C20: the cursor is visible after construction, hidden by busy_start, shown
\* by busy_stop, and left as it is by every other operation and event: at
\* every state its visibility is that set by the latest busy_start or
\* busy_stop.
BusyHidesCursor ==
    /\ [](/\ lastOp.op = "constructor" => cursor.visible
          /\ ~HandleEvent(Screen, <<"busy_start", <<>> >>).cursor.visible
          /\ HandleEvent(Screen, <<"busy_stop", <<>> >>).cursor.visible
          /\ \A arr \in DispatchedEvents \cup NoOpEvents \cup UnknownEvents :
                arr[1] \notin {"busy_start", "busy_stop"} =>
                    HandleEvent(Screen, arr).cursor.visible = cursor.visible)
    /\ [][ /\ lastOp'.op = "busyStart" => ~cursor'.visible
           /\ lastOp'.op = "busyStop" => cursor'.visible
           /\ lastOp'.op \notin {"busyStart", "busyStop"} =>
                cursor'.visible = cursor.visible ]_vars

\* the cursor, hidden by a busy_start, still hidden after it was moved and a
\* frame was flushed
BusyHidesCursorWitness ==
    /\ lastOp.op = "flush"
    /\ ~cursor.visible
    /\ cursor.row = 1
    /\ cursor.modeIdx = 1
    /\ modeInfoList # <<>>

\* the fields of the cursor other than the given ones
CursorKeeps(c, d, fields) ==
    \A k \in {"grid", "row", "col", "modeIdx", "visible"} \ fields : d[k] = c[k]

\* the rows and columns a grid_cursor_goto is tried with: before the grid, in
\* it and past it
GotoArgs == {0 - 1, 0, 1, MaxHeight + 1}

\* C21: gridCursorGoto sets row and col to exactly the values given, also
\* outside the grid, and no other field; modeChange sets only modeIdx,
\* busyStart and busyStop only visible; gridResize, gridLine, gridScroll,
\* gridClear, hlAttrDefine, defaultColorsSet, modeInfoSet and flush leave the
\* cursor as it is.
CursorFrame ==
    /\ [](\A row \in GotoArgs, col \in GotoArgs :
            LET d == GridCursorGotoResult(cursor, row, col)
            IN  d.row = row /\ d.col = col /\ CursorKeeps(cursor, d, {"row", "col"}))
    /\ [][ /\ lastOp'.op = "gridCursorGoto" => CursorKeeps(cursor, cursor', {"row", "col"})
           /\ lastOp'.op = "modeChange" => CursorKeeps(cursor, cursor', {"modeIdx"})
           /\ lastOp'.op \in {"busyStart", "busyStop"} =>
                CursorKeeps(cursor, cursor', {"visible"})
           /\ lastOp'.op \in {"gridResize", "gridLine", "gridScroll", "gridClear",
                              "hlAttrDefine", "defaultColorsSet", "modeInfoSet",
                              "flush"} => cursor' = cursor ]_vars

\* a cursor sent past the grid in mode MaxHeight and hidden, after the grid was
\* written, resized and cleared
CursorFrameWitness ==
    /\ lastOp.op = "gridClear"
    /\ cursor.row = MaxHeight /\ cursor.col = MaxHeight
    /\ cursor.modeIdx = MaxHeight
    /\ ~cursor.visible
    /\ width = 2 /\ height = 2
    /\ hlAttrs # <<>>

\* what a cell of the default colors with no decoration is restyled with
DefaultStyle(dc) == <<RESET, fgSequence(dc.fg), bgSequence(dc.bg)>>

\* C22: at every state reached by redraw operations, every cell with
\* highlightId 0 is styled with the default foreground and background and no
\* decoration, whether the attribute table has an entry for id 0 or not.
HlIdZeroIsDefault ==
    \A r \in 1..Len(cells) : \A c \in 1..Len(cells[r]) :
        cells[r][c].hlId = 0 =>
            Restyle(cells[r][c], 0 - 1, hlAttrs, defaultColors) = DefaultStyle(defaultColors)

\* every empty-text cell of the grid g has, to its left in its row, a cell
\* with a glyph and with its highlightId
Continuations(g) ==
    \A r \in 1..Len(g) : \A c \in 1..Len(g[r]) :
        g[r][c].text = "" =>
            c > 1 /\ g[r][c - 1].text # "" /\ g[r][c - 1].hlId = g[r][c].hlId

\* the runs rewrite a whole row of w columns, and each empty-text run comes
\* right after a single glyph and names neither highlightId nor repeat
SendsWholeRow(runs, w) ==
    /\ TotalColumns(runs) >= w
    /\ \A i \in 1..Len(runs) :
          runs[i][1] = "" =>
              /\ i > 1
              /\ Len(runs[i]) = 1
              /\ runs[i - 1][1] # ""
              /\ ExpectedRepeat(runs, i - 1) = 1

\* the cells arrays a grid_line is tried with: those of WideRuns, a glyph
\* alone, an empty-text run first, one with a highlightId of its own, one
\* repeated, and a wide glyph after a narrow one
AnyWideRuns ==
    WideRuns \cup
    { << <<"a", 2>> >>,
      << <<"", 1>>, <<"a">> >>,
      << <<"w", 1>>, <<"", 2>> >>,
      << <<"w", 1>>, <<"", 1, MaxRepeat>> >>,
      << <<"a", 1>>, <<"w", 2>>, <<"">> >>,
      << <<"w", 2, MaxRepeat>> >> }

\* C23 as stated: at every state reached by gridLine, gridScroll, gridResize
\* and gridClear, every empty-text cell has to its left in its row a non-empty
\* glyph carrying the same highlightId.
EmptyCellsContinue == Continuations(cells)

\* C23, amended: the grid as constructed has no empty-text cell, and when
\* every empty-text cell has to its left a glyph with the same highlightId,
\* this still holds after a gridResize, a gridClear, a gridScroll of a region
\* spanning every column, and a gridLine that rewrites a whole row from column
\* 0 with each empty-text run sent right after its glyph and without a
\* highlightId of its own.
WideGlyphKept ==
    /\ lastOp.op = "constructor" => Continuations(cells)
    /\ Continuations(cells) =>
        /\ \A w \in Widths, h \in Heights :
              Continuations(GridResizeCells(cells, width, height, w, h))
        /\ Continuations(GridClearCells(cells, width, height))
        /\ \A reg \in RowRegions(width, height), rows \in Deltas :
              Continuations(GridScrollResult(cells, dirtyRows, reg[1], reg[2],
                                             reg[3], reg[4], rows).cells)
        /\ \A row \in 0..height, runs \in AnyWideRuns :
              SendsWholeRow(runs, width) =>
                  Continuations(GridLineCells(cells, width, row, 0, runs))

\* a wide glyph and its continuation cell moved to another row by a scroll
WideGlyphWitness ==
    /\ lastOp.op = "gridScroll"
    /\ Continuations(cells)
    /\ width = 2
    /\ \E r \in 2..Len(cells) :
          /\ cells[r][1] = [text |-> "w", hlId |-> 1]
          /\ cells[r][2] = [text |-> "", hlId |-> 1]

\* the places of the sequence out that hold the piece x
Places(out, x) == { i \in 1..Len(out) : out[i] = x }

\* the places of the sequence out that hold a glyph
GlyphPlaces(out) == { i \in 1..Len(out) : "text" \in DOMAIN out[i] }

\* the place of the c-th glyph of out, looked for from place i on
RECURSIVE GlyphFrom(_, _, _)
GlyphFrom(out, i, c) ==
    IF "text" \in DOMAIN out[i]
    THEN (IF c = 1 THEN i ELSE GlyphFrom(out, i + 1, c - 1))
    ELSE GlyphFrom(out, i + 1, c)

\* the place of the c-th glyph of out
GlyphPlace(out, c) == GlyphFrom(out, 1, c)

\* the cells of a row that start a maximal run of one highlightId
RunStarts(row) == { c \in 1..Len(row) : c = 1 \/ row[c].hlId # row[c - 1].hlId }

\* C24: for every row, the output of renderRow holds as many resets as the
\* row has maximal runs of one highlightId, plus one: it ends with a reset,
\* every glyph that starts a run comes right after a reset and the style of
\* its highlightId, and every other glyph comes right after the glyph of its
\* left neighbour.
RenderRowMinimal ==
    \A r \in 1..Len(cells) :
        LET row == cells[r]
            out == renderRow(row, hlAttrs, defaultColors)
            style(c) == buildAttrSequence(MapGet(hlAttrs, row[c].hlId), defaultColors)
        IN  /\ Cardinality(Places(out, RESET)) = Cardinality(RunStarts(row)) + 1
            /\ out[Len(out)] = RESET
            /\ Cardinality(GlyphPlaces(out)) = Len(row)
            /\ \A c \in 1..Len(row) :
                  LET p == GlyphPlace(out, c)
                      before == IF c = 1 THEN 0 ELSE GlyphPlace(out, c - 1)
                  IN  /\ out[p] = GlyphOf(row[c])
                      /\ IF c \in RunStarts(row)
                         THEN SubSeq(out, before + 1, p - 1) = <<RESET>> \o style(c)
                         ELSE p = before + 1

\* a rendered row of two cells of one highlightId and a third of another, both
\* ids defined
RenderRowMinimalWitness ==
    /\ lastOp.op = "render"
    /\ \E r \in 1..Len(cells) :
          /\ Len(cells[r]) = RowWidth
          /\ cells[r][1].hlId = cells[r][2].hlId
          /\ cells[r][2].hlId # cells[r][3].hlId
          /\ Cardinality(Places(renderRow(cells[r], hlAttrs, defaultColors), RESET)) = 3
    /\ {1, 2} \subseteq DOMAIN hlAttrs

\* ESC[2m, the dim (faint) code
DimCode == [esc |-> "2"]

\* the sequence seq holds the dim code, after every other decoration code
DimLast(seq) ==
    \E i \in 1..Len(seq) :
        /\ seq[i] = DimCode
        /\ \A j \in 1..Len(seq) :
              seq[j] \in {BOLD, ITALIC, UNDERLINE, UNDERCURL, UNDERDOUBLE, UNDERDOTTED,
                          UNDERDASHED, STRIKETHROUGH} => j < i

\* C25: once an attribute was defined with dim set, the style sequence of its
\* id, and that of the attribute as it was sent, holds the dim code ESC[2m
\* after the codes of bold, italic, the underline variant and strikethrough.
DimRendered ==
    (/\ lastOp.op = "hlAttrDefine"
     /\ "dim" \in DOMAIN lastOp.rgbAttr
     /\ lastOp.rgbAttr.dim = TRUE) =>
        /\ DimLast(buildAttrSequence(MapGet(hlAttrs, lastOp.id), defaultColors))
        /\ DimLast(buildAttrSequence({lastOp.rgbAttr}, defaultColors))

\* the attributes of the cursor a row is rendered with: none, a foreground, a
\* background, both, and a decoration only
CursorAttrs ==
    { {},
      {[foreground |-> 1118481]},
      {[background |-> 2236962]},
      {[foreground |-> 1118481, background |-> 2236962]},
      {[bold |-> TRUE]} }

\* the colors of a cell of highlightId id: those of its entry in the table,
\* else the default ones, exchanged when the entry has reverse
CellColors(id) ==
    LET entry == IF id \in DOMAIN hlAttrs THEN hlAttrs[id] ELSE [k \in {} |-> 0]
        fg == IF "foreground" \in DOMAIN entry THEN entry.foreground ELSE defaultColors.fg
        bg == IF "background" \in DOMAIN entry THEN entry.background ELSE defaultColors.bg
    IN  IF "reverse" \in DOMAIN entry THEN <<bg, fg>> ELSE <<fg, bg>>

\* the pieces of out between its glyph c - 1 (or its start) and its glyph c
PiecesBefore(out, c) ==
    SubSeq(out, (IF c = 1 THEN 0 ELSE GlyphPlace(out, c - 1)) + 1,
           GlyphPlace(out, c) - 1)

\* C26: in every row that NeovimScreen has rendered, at every cursor column
\* and for every cursorAttr, with shape block the cursor cell is drawn, after
\* a reset, with
\* foreground = that of cursorAttr if it has one, else the background of the
\* cell, and background = that of cursorAttr if it has one, else the
\* foreground of the cell, each channel on its own, the colors of the cell
\* being those of its attribute or the default ones, after the reverse swap;
\* then comes its glyph.
BlockCursorColors ==
    lastOp.op = "render" =>
    \A r \in 1..Len(cells) : \A col \in 0..(Len(cells[r]) - 1) : \A cursorAttr \in CursorAttrs :
        LET row == cells[r]
            out == renderRowWithCursor(row, hlAttrs, defaultColors, col, "block", cursorAttr)
            cell == CellColors(row[col + 1].hlId)
            fg == IF \E a \in cursorAttr : "foreground" \in DOMAIN a
                  THEN (CHOOSE a \in cursorAttr : TRUE).foreground ELSE cell[2]
            bg == IF \E a \in cursorAttr : "background" \in DOMAIN a
                  THEN (CHOOSE a \in cursorAttr : TRUE).background ELSE cell[1]
        IN  /\ Cardinality(GlyphPlaces(out)) = Len(row)
            /\ PiecesBefore(out, col + 1) = <<RESET, fgSequence(fg), bgSequence(bg)>>
            /\ out[GlyphPlace(out, col + 1)] = GlyphOf(row[col + 1])

\* a rendered block cursor on a cell whose attribute has its own colors and
\* reverse: inverted twice, drawn with the foreground of the attribute
BlockCursorWitness ==
    /\ lastOp.op = "render"
    /\ cursor.visible /\ cursor.row = 0 /\ cursor.col = 0
    /\ cells[1][1].hlId = 1
    /\ 1 \in DOMAIN hlAttrs /\ "reverse" \in DOMAIN hlAttrs[1]
    /\ GridRow(Screen, 1)[2] = fgSequence(hlAttrs[1].foreground)
    /\ GridRow(Screen, 1)[3] = bgSequence(hlAttrs[1].background)

\* the left-eighth-block bar U+258F
BarGlyph == [text |-> "U+258F"]

\* C27: when NeovimScreen has rendered with the cursor shape vertical, the row
\* of the cursor shows at the cursor column the bar U+258F instead of the
\* glyph of the cell, after a reset and the colors of the cell (or those
\* cursorAttr gives) with no underline code, and at every other column the
\* glyph of its cell.
VerticalCursorBar ==
    (lastOp.op = "render" /\ shown.cursorShape = "vertical") =>
        \A r \in 1..Len(cells) :
            shown.cursorCol[r] \in 0..(Len(cells[r]) - 1) =>
                LET row == cells[r]
                    col == shown.cursorCol[r]
                    out == GridRow(Screen, r)
                    cell == CellColors(row[col + 1].hlId)
                    fg == IF \E a \in shown.cursorAttr : "foreground" \in DOMAIN a
                          THEN (CHOOSE a \in shown.cursorAttr : TRUE).foreground ELSE cell[1]
                    bg == IF \E a \in shown.cursorAttr : "background" \in DOMAIN a
                          THEN (CHOOSE a \in shown.cursorAttr : TRUE).background ELSE cell[2]
                IN  /\ Cardinality(GlyphPlaces(out)) = Len(row)
                    /\ \A c \in 1..Len(row) :
                          out[GlyphPlace(out, c)] =
                              IF c = col + 1 THEN BarGlyph ELSE GlyphOf(row[c])
                    /\ PiecesBefore(out, col + 1) = <<RESET, fgSequence(fg), bgSequence(bg)>>

\* the escape sequences of out from place i back to the last reset, before acc
RECURSIVE StyleBack(_, _, _)
StyleBack(out, i, acc) ==
    IF i < 1 \/ out[i] = RESET THEN acc
    ELSE StyleBack(out, i - 1, IF "esc" \in DOMAIN out[i] THEN <<out[i]>> \o acc ELSE acc)

\* the escape sequences in force at place p of out: those since the last reset
ActiveStyle(out, p) == StyleBack(out, p - 1, <<>>)

\* the shapes a cursor is drawn with
CursorShapes == {"block", "horizontal", "vertical"}

\* C28: for every row that NeovimScreen has rendered and every cursor column,
\* shape and cursorAttr, each cell of the row other than the cursor cell has
\* in the output of renderRowWithCursor the glyph and the style in force
\* (colors and decorations since the last reset) that it has in the output
\* of renderRow, the cell right after the cursor included; a cursor column
\* past the row changes nothing.
CursorOverlayLocal ==
    lastOp.op = "render" =>
    \A r \in 1..Len(cells) : \A col \in 0..Len(cells[r]) :
        \A cursorShape \in CursorShapes, cursorAttr \in CursorAttrs :
            \A plain \in {renderRow(cells[r], hlAttrs, defaultColors)},
               out \in {renderRowWithCursor(cells[r], hlAttrs, defaultColors, col,
                                           cursorShape, cursorAttr)} :
                /\ Cardinality(GlyphPlaces(out)) = Len(cells[r])
                /\ \A c \in 1..Len(cells[r]) :
                      c # col + 1 =>
                          \A p \in {GlyphPlace(out, c)},
                             q \in {GlyphPlace(plain, c)} :
                              /\ out[p] = plain[q]
                              /\ ActiveStyle(out, p) = ActiveStyle(plain, q)
                /\ col = Len(cells[r]) => out = plain

\* a rendered row whose cursor cell and the cell after it share a decorated
\* highlightId: the cell after the cursor is styled as without the cursor
CursorOverlayWitness ==
    /\ lastOp.op = "render"
    /\ cursor.visible /\ cursor.row = 0 /\ cursor.col = 0
    /\ Len(cells[1]) = RowWidth
    /\ cells[1][1].hlId = 1 /\ cells[1][2].hlId = 1
    /\ 1 \in DOMAIN hlAttrs /\ "bold" \in DOMAIN hlAttrs[1]
    /\ GridRow(Screen, 1) # renderRow(cells[1], hlAttrs, defaultColors)
    /\ ActiveStyle(GridRow(Screen, 1), GlyphPlace(GridRow(Screen, 1), 2))
         = buildAttrSequence({hlAttrs[1]}, defaultColors)

\* the most special-key flags set together in a key event that is tried
MaxSpecial == 2

\* the marker of each set of modifiers
PrefixOf(mods) ==
    CASE mods = {} -> ""
      [] mods = {"shift"} -> "S-"
      [] mods = {"ctrl"} -> "C-"
      [] mods = {"meta"} -> "A-"
      [] mods = {"shift", "ctrl"} -> "S-C-"
      [] mods = {"shift", "meta"} -> "S-A-"
      [] mods = {"ctrl", "meta"} -> "C-A-"
      [] mods = {"shift", "ctrl", "meta"} -> "S-C-A-"

\* the input strings of exactly one character
OneChar == {"a", "x", "<", "\\", "|", " "}

\* the rules of the key table in their order: the flags and inputs a rule
\* matches, and its output
KeyRules(input, key) ==
    LET nav(name) == "<" \o PrefixOf(key \cap Modifiers) \o name \o ">"
    IN  << <<"return" \in key, "<CR>">>,
           <<"escape" \in key, "<Esc>">>,
           <<key \cap {"backspace", "delete"} # {}, "<BS>">>,
           <<{"tab", "shift"} \subseteq key, "<S-Tab>">>,
           <<"tab" \in key, "<Tab>">>,
           <<"upArrow" \in key, nav("Up")>>,
           <<"downArrow" \in key, nav("Down")>>,
           <<"leftArrow" \in key, nav("Left")>>,
           <<"rightArrow" \in key, nav("Right")>>,
           <<"pageUp" \in key, nav("PageUp")>>,
           <<"pageDown" \in key, nav("PageDown")>>,
           <<"home" \in key, nav("Home")>>,
           <<"end" \in key, nav("End")>>,
           <<"ctrl" \in key /\ input \in OneChar, "<C-" \o input \o ">">>,
           <<"meta" \in key /\ input \in OneChar, "<A-" \o input \o ">">>,
           <<input = "<", "<lt>">>,
           <<input = "\\", "<Bslash>">>,
           <<input = "|", "<Bar>">>,
           <<input = " ", "<Space>">>,
           <<TRUE, input>> >>

\* the output of the first rule that matches
FirstMatch(rules) ==
    rules[CHOOSE i \in 1..Len(rules) : rules[i][1] /\ \A j \in 1..(i - 1) : ~rules[j][1]][2]

\* C29: the string keyToNeovimInput returned for an input and a key event is
\* the output of the first rule of the key table that matches, and so is the
\* string it returns for that input and that key event with up to
\* MaxSpecial - 1 more special keys pressed.
KeyFirstMatch ==
    lastOp.op = "keyToNeovimInput" =>
        /\ lastOp.keys = FirstMatch(KeyRules(lastOp.input, lastOp.key))
        /\ \A more \in UpTo(MaxSpecial - 1) :
              keyToNeovimInput(lastOp.input, lastOp.key \cup more)
                  = FirstMatch(KeyRules(lastOp.input, lastOp.key \cup more))

\* an arrow key decoded with shift and ctrl
KeyFirstMatchWitness ==
    /\ lastOp.op = "keyToNeovimInput"
    /\ lastOp.keys = "<S-C-Up>"

\* the named notations of the key table
Notations ==
    {"<CR>", "<Esc>", "<BS>", "<Tab>", "<S-Tab>", "<S-C-Up>", "<C-a>", "<A-x>",
     "<lt>", "<Bslash>", "<Bar>", "<Space>"}

\* the one combination of input string and flags the key table gives for a
\* notation: the named key with the named modifiers and no other flag (for
\* <BS>, either of its two keys)
Documented(n, input, key) ==
    CASE n = "<CR>" -> key = {"return"}
      [] n = "<Esc>" -> key = {"escape"}
      [] n = "<BS>" -> key \in {{"backspace"}, {"delete"}}
      [] n = "<Tab>" -> key = {"tab"}
      [] n = "<S-Tab>" -> key = {"tab", "shift"}
      [] n = "<S-C-Up>" -> key = {"upArrow", "shift", "ctrl"}
      [] n = "<C-a>" -> key = {"ctrl"} /\ input = "a"
      [] n = "<A-x>" -> key = {"meta"} /\ input = "x"
      [] n = "<lt>" -> key = {} /\ input = "<"
      [] n = "<Bslash>" -> key = {} /\ input = "\\"
      [] n = "<Bar>" -> key = {} /\ input = "|"
      [] n = "<Space>" -> key = {} /\ input = " "

\* Every combination that yields a notation: its key with the flags the
\* earlier rules test all unset and the other flags free, or, with no special
\* key, an input string that is the notation itself.
Producers(n, input, key) ==
    LET none(flags) == key \cap flags = {}
        plain == none(SpecialKeys)
        char(c) == plain /\ none({"ctrl", "meta"}) /\ input = c
    IN  \/ plain /\ input = n
        \/ CASE n = "<CR>" -> "return" \in key
             [] n = "<Esc>" -> "escape" \in key /\ none({"return"})
             [] n = "<BS>" -> key \cap {"backspace", "delete"} # {}
                              /\ none({"return", "escape"})
             [] n = "<Tab>" -> "tab" \in key /\ "shift" \notin key
                               /\ none({"return", "escape", "backspace", "delete"})
             [] n = "<S-Tab>" -> {"tab", "shift"} \subseteq key
                                 /\ none({"return", "escape", "backspace", "delete"})
             [] n = "<S-C-Up>" -> "upArrow" \in key /\ key \cap Modifiers = {"shift", "ctrl"}
                                  /\ none({"return", "escape", "backspace", "delete", "tab"})
             [] n = "<C-a>" -> plain /\ "ctrl" \in key /\ input = "a"
             [] n = "<A-x>" -> plain /\ "ctrl" \notin key /\ "meta" \in key /\ input = "x"
             [] n = "<lt>" -> char("<")
             [] n = "<Bslash>" -> char("\\")
             [] n = "<Bar>" -> char("|")
             [] n = "<Space>" -> char(" ")

\* C30 as stated: a decoded key event yields a named notation exactly when it
\* is the documented combination of that notation, and no other combination
\* of input string and flags yields it.
KeyRoundTripExact ==
    lastOp.op = "keyToNeovimInput" =>
        \A n \in Notations :
            lastOp.keys = n <=> Documented(n, lastOp.input, lastOp.key)

\* C30, amended: the documented combination of each named notation yields it,
\* and a combination of input string and flags yields the notation exactly
\* when it is that key with the flags tested by the earlier rules unset (any
\* other flag and, for a special key, any input string), or when no special
\* key is set and the input string is the notation itself.
KeyRoundTrip ==
    lastOp.op = "keyToNeovimInput" =>
        /\ \A n \in Notations :
              Documented(n, lastOp.input, lastOp.key) => lastOp.keys = n
        /\ \A more \in UpTo(MaxSpecial - 1) :
              \A keys \in {keyToNeovimInput(lastOp.input, lastOp.key \cup more)} :
                  \A n \in Notations :
                      keys = n <=> Producers(n, lastOp.input, lastOp.key \cup more)

\* the documented combination of <A-x> decoded
KeyRoundTripWitness ==
    /\ lastOp.op = "keyToNeovimInput"
    /\ lastOp.keys = "<A-x>"
    /\ Documented("<A-x>", lastOp.input, lastOp.key)

(* ---------------------- properties of the mouse decoder ---------------- *)

\* the string without its leading escape character, if it has one
Stripped(s) == IF s # <<>> /\ s[1] = ESC THEN Tail(s) ELSE s

\* the pieces of a string between its semicolons
RECURSIVE SplitAt(_, _)
SplitAt(s, piece) ==
    IF s = <<>> THEN <<piece>>
    ELSE IF Head(s) = ";" THEN <<piece>> \o SplitAt(Tail(s), <<>>)
    ELSE SplitAt(Tail(s), Append(piece, Head(s)))

\* the three numbers of a string of the form [ESC] [< Cb ; Cx ; Cy (M|m), as
\* they are written
Numbers(s) == SplitAt(SubSeq(Stripped(s), 3, Len(Stripped(s)) - 1), <<>>)

\* a number written in decimal digits
IsNumber(piece) ==
    /\ piece # <<>>
    /\ \A i \in 1..Len(piece) : piece[i] \in {"0", "1", "2", "3", "4", "5", "6", "7", "8", "9"}

\* the string has the form [ESC] [< Cb ; Cx ; Cy (M|m)
IsSgrForm(s) ==
    /\ Len(Stripped(s)) >= 3
    /\ SubSeq(Stripped(s), 1, 2) = <<"[", "<">>
    /\ Stripped(s)[Len(Stripped(s))] \in {"M", "m"}
    /\ Len(Numbers(s)) = 3
    /\ \A i \in 1..3 : IsNumber(Numbers(s)[i])

\* the number a piece writes
RECURSIVE NumberOf(_)
NumberOf(piece) ==
    IF piece = <<>> THEN 0
    ELSE (CHOOSE d \in 0..9 : Decimal(d) = <<Head(piece)>>) * 10 ^ (Len(piece) - 1)
         + NumberOf(Tail(piece))

\* bit `bit` of the button code is set
HasBit(cb, bit) == (cb % (2 * bit)) >= bit

\* the modifier string the bits 4, 8, 16 stand for
ModifierNames(cb) ==
    CASE HasBit(cb, 4) /\ HasBit(cb, 8) /\ HasBit(cb, 16) -> "shift:alt:ctrl"
      [] HasBit(cb, 4) /\ HasBit(cb, 8) /\ ~HasBit(cb, 16) -> "shift:alt"
      [] HasBit(cb, 4) /\ ~HasBit(cb, 8) /\ HasBit(cb, 16) -> "shift:ctrl"
      [] HasBit(cb, 4) /\ ~HasBit(cb, 8) /\ ~HasBit(cb, 16) -> "shift"
      [] ~HasBit(cb, 4) /\ HasBit(cb, 8) /\ HasBit(cb, 16) -> "alt:ctrl"
      [] ~HasBit(cb, 4) /\ HasBit(cb, 8) /\ ~HasBit(cb, 16) -> "alt"
      [] ~HasBit(cb, 4) /\ ~HasBit(cb, 8) /\ HasBit(cb, 16) -> "ctrl"
      [] OTHER -> ""

\* the place and the modifier of the event of a string of the form
PlaceAndModifier(e, s) ==
    /\ e # Null
    /\ e.col = NumberOf(Numbers(s)[2]) - 1
    /\ e.row = NumberOf(Numbers(s)[3]) - 1
    /\ e.modifier = ModifierNames(NumberOf(Numbers(s)[1]))

\* the wheel: bit 64 set, whatever the final character
WheelEvent(e, cb) ==
    /\ e.button = "wheel"
    /\ e.action = IF HasBit(cb, 1) THEN "scroll_down" ELSE "scroll_up"

\* C31 as stated: a string of the form decodes to the place and the modifier
\* of its numbers, to the wheel when bit 64 is set, and otherwise to the
\* button of its low bits 0/1/2 with drag for bit 32 on an M sequence and
\* press otherwise; every other string decodes to null.
MouseDecodedPressOtherwise ==
    lastOp.op = "parseMouseEvent" =>
        IF IsSgrForm(lastOp.s)
        THEN \A cb \in {NumberOf(Numbers(lastOp.s)[1])} :
               /\ PlaceAndModifier(lastOp.event, lastOp.s)
               /\ IF HasBit(cb, 64) THEN WheelEvent(lastOp.event, cb)
                  ELSE /\ cb % 4 = 0 => lastOp.event.button = "left"
                       /\ cb % 4 = 1 => lastOp.event.button = "middle"
                       /\ cb % 4 = 2 => lastOp.event.button = "right"
                       /\ lastOp.event.action =
                            IF HasBit(cb, 32) /\ Stripped(lastOp.s)[Len(Stripped(lastOp.s))] = "M"
                            THEN "drag" ELSE "press"
        ELSE lastOp.event = Null

\* C31, amended: as stated, but a button that is not the wheel decodes to
\* release on an m sequence (drag for bit 32 and press otherwise only on an M
\* sequence), and to right for the low bits 3 as for 2.
MouseDecoded ==
    lastOp.op = "parseMouseEvent" =>
        IF IsSgrForm(lastOp.s)
        THEN \A cb \in {NumberOf(Numbers(lastOp.s)[1])} :
               /\ PlaceAndModifier(lastOp.event, lastOp.s)
               /\ IF HasBit(cb, 64) THEN WheelEvent(lastOp.event, cb)
                  ELSE /\ lastOp.event.button =
                            (CASE cb % 4 = 0 -> "left" [] cb % 4 = 1 -> "middle"
                               [] OTHER -> "right")
                       /\ lastOp.event.action =
                            IF Stripped(lastOp.s)[Len(Stripped(lastOp.s))] = "m" THEN "release"
                            ELSE IF HasBit(cb, 32) THEN "drag" ELSE "press"
        ELSE lastOp.event = Null

\* ctrl + scroll-up decoded, without the escape character
MouseDecodedWitness ==
    /\ lastOp.op = "parseMouseEvent"
    /\ lastOp.s = <<"[", "<", "8", "0", ";", "1", "0", ";", "5", "M">>
    /\ lastOp.event = [button |-> "wheel", action |-> "scroll_up", modifier |-> "ctrl",
                       col |-> 9, row |-> 4]

\* C32: a mouse sequence that ends in m decodes to the action release,
\* whatever its button code, and one that ends in M decodes to press, drag or
\* a scroll and never to release.
FinalSelectsRelease ==
    (lastOp.op = "parseMouseEvent" /\ IsSgrForm(lastOp.s)) =>
        /\ lastOp.event # Null
        /\ Stripped(lastOp.s)[Len(Stripped(lastOp.s))] = "m" => lastOp.event.action = "release"
        /\ Stripped(lastOp.s)[Len(Stripped(lastOp.s))] = "M" =>
              lastOp.event.action \in {"press", "drag", "scroll_up", "scroll_down"}

\* C38: every string that parseMouseEvent decodes to an event passes
\* isMouseSequence, and so does the same sequence with the escape character
\* stripped and with it in front.
PreCheckComplete ==
    (lastOp.op = "parseMouseEvent" /\ lastOp.event # Null) =>
        /\ lastOp.isMouse
        /\ isMouseSequence(Stripped(lastOp.s))
        /\ isMouseSequence(<<ESC>> \o Stripped(lastOp.s))
        /\ parseMouseEvent(Stripped(lastOp.s)) = lastOp.event
        /\ parseMouseEvent(<<ESC>> \o Stripped(lastOp.s)) = lastOp.event

\* the shortest sequence there is, of eight characters, decoded
PreCheckCompleteWitness ==
    /\ lastOp.op = "parseMouseEvent"
    /\ lastOp.s = <<"[", "<", "0", ";", "1", ";", "1", "M">>
    /\ lastOp.event # Null
    /\ lastOp.isMouse

(* ----------------------- properties of the input hook ------------------ *)

\* C34: a run of the input callback calls at most one of onMouse, onPaste and
\* sendInput: onMouse alone with the event when the input parses as a mouse
\* event; otherwise onPaste alone with the input when it is longer than one
\* character and no modifier or special-key flag is set; otherwise sendInput
\* alone with the translation of keyToNeovimInput when that is not empty, and
\* nothing when it is empty. An input that passes isMouseSequence and does not
\* parse goes on to the paste and key decoders.
OneSink ==
    lastOp.op = "useRawInput" =>
        /\ Len(lastOp.calls) <= 1
        /\ lastOp.calls =
             (CASE parseMouseEvent(lastOp.input) # Null ->
                     << [sink |-> "onMouse", arg |-> parseMouseEvent(lastOp.input)] >>
                [] parseMouseEvent(lastOp.input) = Null
                   /\ Len(lastOp.input) > 1
                   /\ lastOp.key \cap (Modifiers \cup SpecialKeys) = {} ->
                     << [sink |-> "onPaste", arg |-> lastOp.input] >>
                [] OTHER ->
                     IF keyToNeovimInput(Text(lastOp.input), lastOp.key) = "" THEN <<>>
                     ELSE << [sink |-> "sendInput",
                              arg |-> keyToNeovimInput(Text(lastOp.input), lastOp.key)] >>)
        /\ (isMouseSequence(lastOp.input) /\ parseMouseEvent(lastOp.input) = Null)
              => /\ lastOp.calls # <<>>
                 /\ lastOp.calls[1].sink = IF lastOp.key = {} THEN "onPaste" ELSE "sendInput"

\* a string that passes the pre-check and does not parse, pasted
OneSinkWitness ==
    /\ lastOp.op = "useRawInput"
    /\ lastOp.input = <<"[", "<", "0", ";", "1", ";", "1", "X">>
    /\ lastOp.key = {}
    /\ lastOp.calls = << [sink |-> "onPaste", arg |-> lastOp.input] >>

\* the characters of a text with each < written <lt>
RECURSIVE Escaped(_)
Escaped(s) ==
    IF s = <<>> THEN ""
    ELSE (IF Head(s) = "<" THEN "<lt>" ELSE Head(s)) \o Escaped(Tail(s))

\* the strings that encode the text of an input holding a < with no raw <:
\* the text with <lt> for each <, and for the single character < the
\* notation lt under a prefix of modifiers
EscapedForms(input) ==
    {Escaped(input)}
        \cup IF input = <<"<">>
             THEN { "<" \o PrefixOf(mods) \o "lt>" : mods \in SUBSET Modifiers }
             ELSE {}

\* C39: when an input that holds the character < takes the key path, under
\* any set of the modifiers ctrl, meta and shift, the string given to
\* sendInput writes that character as lt and holds no raw < of its own.
LtEscaped ==
    (/\ lastOp.op = "useRawInput"
     /\ lastOp.key \subseteq Modifiers
     /\ \E i \in 1..Len(lastOp.input) : lastOp.input[i] = "<"
     /\ lastOp.calls # <<>>
     /\ lastOp.calls[1].sink = "sendInput")
        => lastOp.calls[1].arg \in EscapedForms(lastOp.input)

(* ------------------------- properties of mode indices ------------------ *)

\* the mode table holds an entry for the mode index, and it names a shape
ShapeKnown ==
    \E i \in 1..Len(modeInfoList) :
        /\ cursor.modeIdx = i - 1
        /\ "cursor_shape" \in DOMAIN modeInfoList[i]

\* C35: modeChange stores the index it is given, whether or not the mode
\* table has an entry for it, and the shape the screen is rendered with is
\* the cursor_shape of the entry of the mode index when the table has that
\* entry and it names a shape, and block otherwise.
ModeIndexTolerated ==
    /\ [](lastOp.op = "render" =>
            /\ ShapeKnown => shown.cursorShape = modeInfoList[cursor.modeIdx + 1].cursor_shape
            /\ ~ShapeKnown => shown.cursorShape = "block")
    /\ [][\A modeIdx \in ModeIndices :
            ModeChange(modeIdx) => /\ cursor'.modeIdx = modeIdx
                                   /\ modeInfoList' = modeInfoList]_vars

\* rendered as a block with the mode index below a table that has entries
ModeIndexWitness ==
    /\ lastOp.op = "render"
    /\ modeInfoList # <<>>
    /\ cursor.modeIdx = 0 - 1
    /\ shown.cursorShape = "block"

(* ------------------------- properties of dirty rows -------------------- *)

\* the rows as they were after the most recent flush, or after construction
\* (every row the grid then had blank, at the width the grid then had)
RowAtFlush(r) ==
    IF flushed = {} THEN {makeRow(width)}
    ELSE { g.cells[r + 1] : g \in { f \in flushed : r < Len(f.cells) } }

\* C36: every row of the grid whose cells are not what they were right after
\* the most recent flush (after construction, when there was none) is in the
\* dirty set.
DirtyComplete ==
    \A r \in 0..(height - 1) :
        cells[r + 1] \notin RowAtFlush(r) => r \in dirtyRows

\* after a flush, one row written and dirty, another as it was and clean
DirtyCompleteWitness ==
    /\ flushed # {}
    /\ height >= 2
    /\ cells[1] \notin RowAtFlush(0)
    /\ cells[2] \in RowAtFlush(1)
    /\ dirtyRows = {0}

\* C37: every element of the dirty set is a row index of the grid as it is.
DirtyRowsValid == \A r \in dirtyRows : r >= 0 /\ r < height

(* ------------------------ properties of the connection ----------------- *)

\* the ScreenBuffer: its size, its cells and everything else it holds
BufferVars == <<width, height, cells, dirtyRows, generation, attrVars>>

\* C33: useNeovim.resize(w, h) sends one nvim_ui_try_resize request and
\* leaves the ScreenBuffer as it is; the size of the ScreenBuffer changes only
\* in a run of the redraw handler on a notification that holds a grid_resize
\* event, and its cells change only in a run of the redraw handler.
ResizeOwnedByNeovim ==
    /\ [][lastOp'.op = "resize" =>
            /\ UNCHANGED BufferVars
            /\ requests' = Append(requests, <<"nvim_ui_try_resize", lastOp'.w, lastOp'.h>>)
            /\ UNCHANGED channel]_vars
    /\ [][(width' # width \/ height' # height) =>
            /\ lastOp'.op = "redraw"
            /\ \E i \in DOMAIN lastOp'.names : lastOp'.names[i] = "grid_resize"]_vars
    /\ [][cells' # cells => lastOp'.op = "redraw"]_vars

\* the grid_resize event of a request is the next message to dispatch, and
\* the ScreenBuffer still has another size than the one requested
ResizeOwnedWitness ==
    /\ channel # <<>>
    /\ Head(channel).type = "notification"
    /\ Head(channel).args[1][1] = "grid_resize"
    /\ <<width, height>> # <<Head(channel).args[1][2][2], Head(channel).args[1][2][3]>>
    /\ cells[1][1].text = "a"

\* C40: no redraw notification is dispatched before the redraw handler is
\* registered, so that none is dropped, and once every message of the start-up
\* is dispatched the frame Neovim sent is applied.
NoRedrawLost ==
    /\ lastOp.op # "dropped"
    /\ (requests = <<>> /\ channel = <<>> /\ initPc = "done") =>
          /\ generation = 1
          /\ cells[1][1] = [text |-> "a", hlId |-> 1]

====
